---------------------------- MODULE Spec2Model ----------------------------
(***************************************************************************)
(* State-machine model of the pytrade2 orchestration layer:                *)
(*   - StrategyBase.processing_loop / process_new_data / apply_buffers /   *)
(*     learn (src/pytrade2/strategy/common/StrategyBase.py),               *)
(*   - the signal-to-trade paths of LgbLowHighRegressionStrategy,          *)
(*     LongCandleLgbStrategy and LongCandleStrategyBase,                   *)
(*   - the re-entrancy flags of PredictLowHighStrategy.                    *)
(* Time is counted in units of 60 seconds.                                 *)
(***************************************************************************)
EXTENDS Integers, FiniteSets, Sequences, TLC

(***************************************************************************)
(* Bounds of the model and program constants.                              *)
(***************************************************************************)
\* Number of market items the feed thread appends in one run.
MaxItems == 2
\* history_min_window (config "pytrade2.strategy.history.min.window"), in units.
HistoryMinWindow == 1
\* Largest age of the newest feed item the clock counts up to.
MaxAge == 2
\* pd.Timedelta("60s") added to history_min_window in is_alive, in units.
AliveGrace == 1
\* Largest wall-clock value of the trade-gate specification.
MaxTime == 3
\* wait_after_loss of the risk manager (config), in units.
WaitAfterLoss == 2

\* Largest number of ticks in one event.data of on_price_changed.
MaxBatch == 2
\* take_profit_price of the current trade; tick prices lie around it.
TakeProfit == 2

\* Level2 feed: last clock value, longest retention, most rows held.
MaxTs == 3
MaxW == 2
MaxRows == 3
\* pd.Timedelta("1min") in seconds, and the wall clock of a test run, later
\* than every row of the test buffer.
Minute == 60
TestNow == 1000

\* Unchecked buffers: most candles of the target period.
MaxCandles == 4
\* "Should keep 2 more candles for targets".
TargetHorizon == 2

\* Largest open price of a created trade.
MaxOpenPrice == 2

\* process_new_data with check_cur_trade: last clock value and clock step,
\* in seconds.
MaxChkTime == 60
ChkStep == 10
\* self.trade_check_interval = timedelta(seconds=30)
TradeCheckInterval == 30

MaxSlPrice == 4
MaxCycles == 2
\* Widest span of the bid_ask index the model follows, in seconds.
MaxSpan == 2

\* self.learn_interval is None when the config key is absent.
NoInterval == -1
\* self.broker.cur_trade is None
NoTrade == 0

Items == 1..MaxItems

VARIABLES
    \* ---- StrategyBase: main processing loop thread
    mainpc,          \* position of the processing_loop thread
    new_data_event,  \* threading.Event shared by the feeds and the loop
    data_lock,       \* owner of self.data_lock: "none", "main", "learn"
    is_processing,   \* self.is_processing
    model,           \* self.model is set
    model_fitted,    \* model.fit has completed at least once
    last_exc,        \* step of the last exception raised in the loop thread
    exit_called,     \* exit(1) was called by the loop's handler
    \* ---- feed thread and its buffers
    feedpc,          \* "idle" | "set" (item appended, event not yet set)
    feed_age,        \* time units since the newest feed item arrived
    next_item,       \* id of the next item the feed will append
    feed_buf,        \* pending items (the feed's *_buf)
    feed_data,       \* committed items (the feed's main data set)
    commit_count,    \* how many times each item was merged by apply_buf
    \* ---- StrategyBase.learn thread (first call from run(), then Timer chain)
    learnpc,         \* position inside learn(), "idle" between runs
    learn_interval,  \* self.learn_interval (NoInterval when not configured)
    timers,          \* number of started, not yet fired learn Timers
    learn_result,    \* outcome of the current / last learn run
    learn_escaped    \* an exception left learn() and reached its caller

loopvars == <<mainpc, new_data_event, data_lock, is_processing, model,
              model_fitted, last_exc, exit_called, feedpc, feed_age,
              next_item, feed_buf, feed_data, commit_count, learnpc,
              learn_interval, timers, learn_result, learn_escaped>>

\* ---- trade gate (process_prediction / process_signal of the strategies)
VARIABLES
    strategy,        \* which strategy class runs the cycle
    now,             \* wall clock of the gate specification
    cur_trade,       \* broker.cur_trade: NoTrade or the trade's direction
    last_loss,       \* time of the last trade closed with a loss, -1 if none
    cycle,           \* record of the last process_prediction / process_signal
    gatepc,          \* line the running process_prediction call has reached
    gate_call        \* values the running process_prediction call has read

gatevars == <<strategy, now, cur_trade, last_loss, cycle, gatepc,
              gate_call>>

\* ---- PredictLowHighStrategy: feed callbacks on_level2 / on_ticker
VARIABLES
    plhpc,           \* position of each callback thread
    is_learning,     \* self.is_learning
    plh_processing,  \* self.is_processing
    plh_model,       \* self.model is set
    plh_exc,         \* an exception left the callback of that thread
    plh_feeds,       \* which of self.level2 / self.bid_ask are non-empty
    plh_span         \* bid_ask.index.max() - bid_ask.index.min(), seconds

plhvars == <<plhpc, is_learning, plh_processing, plh_model, plh_exc,
             plh_feeds, plh_span>>

\* ---- TrailingStopSupport: on_price_changed on the broker's callback thread
VARIABLES
    tss_trade,       \* self.cur_trade: [dir, status], status "absent" for None
    exch_closed,     \* the exchange has closed the trade (stop loss / fill)
    trade_lock,      \* owner of self.trade_lock: "none" or "tss"
    tsspc,           \* position inside on_price_changed, "idle" between calls
    tss_batch,       \* event.data of the current / last call
    tss_idx,         \* index of the tick under evaluation
    tss_log,         \* broker operations issued by the current / last call
    tss_stale,       \* a re-fetch of this call found the trade not opened
    tss_last,        \* how the last call ended
    tss_escaped,     \* an exception left on_price_changed
    tss_initiated    \* a closing order was submitted for the present trade

tssvars == <<tss_trade, exch_closed, trade_lock, tsspc, tss_batch, tss_idx,
             tss_log, tss_stale, tss_last, tss_escaped,
             tss_initiated>>

\* ---- Level2Feed: buffer, main data set and retention (time in seconds)
VARIABLES
    level2_buf,            \* self.level2_buf: timestamps of the pending rows
    level2,                \* self.level2: timestamps of the committed rows
    level2_history_period, \* self.level2_history_period
    l2_clock,              \* wall clock of the feed
    l2_last,               \* last operation: "init", "append", "tick", "apply"
    l2_before,             \* level2 and level2_buf rows the last apply found
    l2_applies             \* applies since the last append, counted up to 2

l2vars == <<level2_buf, level2, level2_history_period, l2_clock, l2_last,
            l2_before, l2_applies>>

\* ---- LongCandleStrategyBase: unchecked buffers of update_unchecked
VARIABLES
    uc_candles,      \* candles_by_interval[target_period]: indices 1..uc_candles
    x_unchecked,     \* self.x_unchecked: rows [index, value]
    y_unchecked,     \* self.y_unchecked: rows [index, value]
    x_checked,       \* x_checked returned by the last call
    y_checked,       \* y_checked returned by the last call
    uc_new,          \* x_new / y_new of the last call
    uc_overwrote,    \* the last call replaced a row of the same index
    uc_added,        \* indices passed to update_unchecked so far
    uc_checked,      \* indices returned as checked so far
    uc_in_order      \* no call so far had an index below an earlier one

ucvars == <<uc_candles, x_unchecked, y_unchecked, x_checked, y_checked,
            uc_new, uc_overwrote, uc_added, uc_checked, uc_in_order>>

\* ---- StrategyBase.process_new_data with check_cur_trade (time in seconds)
VARIABLES
    chk_now,                \* datetime.utcnow()
    last_trade_check_time,  \* self.last_trade_check_time
    chk_trade,              \* self.broker.cur_trade is set
    chk_model,              \* self.model is set
    chk_cycle,              \* what the last process_new_data did
    chk_refreshes,          \* times of the last two completed status refreshes
    chkpc,                  \* the call process_new_data has reached
    chk_processing,         \* self.is_processing
    chk_call                \* what the running process_new_data has done

chkvars == <<chk_now, last_trade_check_time, chk_trade, chk_model, chk_cycle,
             chk_refreshes, chkpc, chk_processing, chk_call>>

\* ---- StrategyBase.is_alive over the configured feeds (time in minutes)
VARIABLES
    al_feeds,        \* the feeds that are configured (not None)
    al_age,          \* per feed: time since its last data
    al_result,       \* result of the last is_alive(): "none", "alive", "dead"
    al_seen          \* the ages that call found

alvars == <<al_feeds, al_age, al_result, al_seen>>

\* ---- LongCandleStrategyBase.process_signal
VARIABLES
    sl_candle,    \* last candle of the target period: low, high
    sl_call       \* the last process_signal call and what it asked the broker

slvars == <<sl_candle, sl_call>>

\* ---- data_lock and trade_lock with the threads that take them
VARIABLES
    lk_strategy,  \* whose process_new_data the loop thread runs
    lk_data,      \* holder of self.data_lock ("none" when free)
    lk_trade,     \* holder of broker.trade_lock ("none" when free)
    lk_feed,      \* holder of the lock the feeds were given, where it is
                  \* not self.data_lock any more ("none" when free)
    lkpc          \* per thread: where it is

lkvars == <<lk_strategy, lk_data, lk_trade, lk_feed, lkpc>>

\* ---- start of processing_loop (time in minutes)
VARIABLES
    st_feeds,      \* the feeds that are configured (not None)
    st_has_data,   \* per feed: it has received data
    st_age,        \* per feed: time since its last data
    st_pc,         \* processing_loop: "start", "loop", "process",
                   \* "apply_buffers", "guard", "cycle", "sleep", "refresh",
                   \* "ended", "exited"
    st_lock,       \* holder of self.data_lock ("none" when free)
    st_event,      \* self.new_data_event is set
    st_is_alive,   \* its local is_alive: "unset", "true", "false"
    st_first,      \* what the evaluation before the loop found
    st_cycles      \* iterations of the loop body (counted up to MaxCycles)

stvars == <<st_feeds, st_has_data, st_age, st_pc, st_lock, st_event,
            st_is_alive,
           st_first,
            st_cycles>>

\* The state of the helpers that have a specification of their own.
sidevars == <<slvars, lkvars, stvars>>

otherthansl == <<loopvars, gatevars, plhvars, tssvars, l2vars, ucvars,
                 chkvars, alvars, lkvars, stvars>>
otherthanlk == <<loopvars, gatevars, plhvars, tssvars, l2vars, ucvars,
                 chkvars, alvars, slvars, stvars>>
otherthanst == <<loopvars, gatevars, plhvars, tssvars, l2vars, ucvars,
                 chkvars, alvars, slvars, lkvars>>

otherthanloop == <<gatevars, plhvars, tssvars, l2vars, ucvars, chkvars,
                   alvars, sidevars>>
otherthangate == <<loopvars, plhvars, tssvars, l2vars, ucvars, chkvars,
                   alvars, sidevars>>
otherthanplh == <<loopvars, gatevars, tssvars, l2vars, ucvars, chkvars,
                  alvars, sidevars>>
otherthantss == <<loopvars, gatevars, plhvars, l2vars, ucvars, chkvars,
                  alvars, sidevars>>
otherthanl2 == <<loopvars, gatevars, plhvars, tssvars, ucvars, chkvars,
                 alvars, sidevars>>
otherthanuc == <<loopvars, gatevars, plhvars, tssvars, l2vars, chkvars,
                 alvars, sidevars>>
otherthanchk == <<loopvars, gatevars, plhvars, tssvars, l2vars, ucvars,
                  alvars, sidevars>>
otherthanal == <<loopvars, gatevars, plhvars, tssvars, l2vars, ucvars,
                 chkvars, sidevars>>

vars == <<loopvars, gatevars, plhvars, tssvars, l2vars, ucvars, chkvars,
          alvars, sidevars>>

(***************************************************************************)
(* Feed collaborators (CandlesFeed / BidAskFeed / Level2Feed): their code  *)
(* is not part of the sources; modelled from the specification.            *)
(***************************************************************************)

\* feed.is_alive(maxdelta): the newest item is younger than maxdelta.
FeedIsAlive(maxdelta) == feed_age < maxdelta

\* StrategyBase.is_alive(): maxdelta = history_min_window + 60s, all feeds alive.
MaxDelta == HistoryMinWindow + AliveGrace

is_alive == FeedIsAlive(MaxDelta)

\* Feed ingestion path, first half: append the new item to the buffer under
\* the data lock.
FeedAppend ==
    /\ feedpc = "idle"
    /\ next_item <= MaxItems
    /\ data_lock = "none"
    /\ feed_buf' = feed_buf \cup {next_item}
    /\ next_item' = next_item + 1
    /\ feed_age' = 0
    /\ feedpc' = "set"
    /\ UNCHANGED <<mainpc, new_data_event, data_lock, is_processing, model,
                   model_fitted, last_exc, exit_called, feed_data,
                   commit_count, learnpc, learn_interval, timers,
                   learn_result, learn_escaped, otherthanloop>>

\* Feed ingestion path, second half: new_data_event.set().
FeedSet ==
    /\ feedpc = "set"
    /\ new_data_event' = TRUE
    /\ feedpc' = "idle"
    /\ UNCHANGED <<mainpc, data_lock, is_processing, model, model_fitted,
                   last_exc, exit_called, feed_age, next_item, feed_buf,
                   feed_data, commit_count, learnpc, learn_interval, timers,
                   learn_result, learn_escaped, otherthanloop>>

\* feed.apply_buf(): merge the buffer into the main data set, clear the buffer.
ApplyBuf ==
    /\ feed_data' = feed_data \cup feed_buf
    /\ commit_count' = [i \in Items |->
                          IF i \in feed_buf THEN commit_count[i] + 1
                                            ELSE commit_count[i]]
    /\ feed_buf' = {}

\* The clock: the newest feed item grows older.
Tick ==
    /\ feed_age < MaxAge
    /\ feed_age' = feed_age + 1
    /\ UNCHANGED <<mainpc, new_data_event, data_lock, is_processing, model,
                   model_fitted, last_exc, exit_called, feedpc, next_item,
                   feed_buf, feed_data, commit_count, learnpc, learn_interval,
                   timers, learn_result, learn_escaped, otherthanloop>>

(***************************************************************************)
(* StrategyBase.apply_buffers, called by the loop thread and by learn().   *)
(***************************************************************************)

\* `with self.data_lock:` entered, buffers copied into the main data sets.
ApplyBuffersEnter(t) ==
    /\ data_lock = "none"
    /\ data_lock' = t
    /\ ApplyBuf

\* data_persister.save_last_data returned, the with-block released the lock.
ApplyBuffersExit(t) ==
    /\ data_lock = t
    /\ data_lock' = "none"

(***************************************************************************)
(* StrategyBase.processing_loop and process_new_data (loop thread).        *)
(***************************************************************************)
mainframe == <<feedpc, feed_age, next_item, learnpc, learn_interval, timers,
               learn_result, learn_escaped, otherthanloop>>

\* Steps of process_new_data that run inside its try block.
CycleSteps == {"prepare_last_x", "predict", "check_cur_trade",
               "process_prediction", "save_last_data"}

\* is_alive = self.is_alive(); while is_alive or is_alive is None: ...
LoopIsAlive ==
    /\ mainpc = "is_alive"
    /\ mainpc' = IF is_alive THEN "wait" ELSE "ended"
    /\ UNCHANGED <<new_data_event, data_lock, is_processing, model,
                   model_fitted, last_exc, exit_called, feed_buf, feed_data,
                   commit_count>>
    /\ UNCHANGED mainframe

\* self.new_data_event.wait()
LoopWait ==
    /\ mainpc = "wait"
    /\ new_data_event
    /\ mainpc' = "clear"
    /\ UNCHANGED <<new_data_event, data_lock, is_processing, model,
                   model_fitted, last_exc, exit_called, feed_buf, feed_data,
                   commit_count>>
    /\ UNCHANGED mainframe

\* self.new_data_event.clear()
LoopClear ==
    /\ mainpc = "clear"
    /\ new_data_event' = FALSE
    /\ mainpc' = "apply_buffers"
    /\ last_exc' = "none"
    /\ UNCHANGED <<data_lock, is_processing, model, model_fitted, exit_called,
                   feed_buf, feed_data, commit_count>>
    /\ UNCHANGED mainframe

\* process_new_data: self.apply_buffers(), lock taken and buffers applied
LoopApplyEnter ==
    /\ mainpc = "apply_buffers"
    /\ ApplyBuffersEnter("main")
    /\ mainpc' = "apply_save"
    /\ UNCHANGED <<new_data_event, is_processing, model, model_fitted,
                   last_exc, exit_called>>
    /\ UNCHANGED mainframe

\* apply_buffers returns normally
LoopApplyExit ==
    /\ mainpc = "apply_save"
    /\ ApplyBuffersExit("main")
    /\ mainpc' = "process"
    /\ UNCHANGED <<new_data_event, is_processing, model, model_fitted,
                   last_exc, exit_called, feed_buf, feed_data, commit_count>>
    /\ UNCHANGED mainframe

\* apply_buffers raises (save_last_data fails): the call is outside the try
\* of process_new_data, so the exception reaches processing_loop's handler.
LoopApplyRaise ==
    /\ mainpc = "apply_save"
    /\ ApplyBuffersExit("main")
    /\ last_exc' = "apply_buffers"
    /\ mainpc' = "except"
    /\ UNCHANGED <<new_data_event, is_processing, model, model_fitted,
                   exit_called, feed_buf, feed_data, commit_count>>
    /\ UNCHANGED mainframe

\* processing_loop: except Exception: logging.exception; "Exiting"; exit(1).
\* exit(1) raises SystemExit in the loop thread, which ends that thread only.
LoopExcept ==
    /\ mainpc = "except"
    /\ exit_called' = TRUE
    /\ mainpc' = "exited"
    /\ UNCHANGED <<new_data_event, data_lock, is_processing, model,
                   model_fitted, last_exc, feed_buf, feed_data, commit_count>>
    /\ UNCHANGED mainframe

\* process_new_data: if self.model and not self.is_processing: is_processing = True
ProcessGuard ==
    /\ mainpc = "process"
    /\ IF model /\ ~is_processing
          THEN /\ is_processing' = TRUE
               /\ mainpc' = "prepare_last_x"
          ELSE /\ is_processing' = is_processing
               /\ mainpc' = "sleep"
    /\ UNCHANGED <<new_data_event, data_lock, model, model_fitted, last_exc,
                   exit_called, feed_buf, feed_data, commit_count>>
    /\ UNCHANGED mainframe

\* The step after s inside the try block of process_new_data.
NextCycleStep(s) ==
    CASE s = "prepare_last_x" -> "predict"
      [] s = "predict" -> "check_cur_trade"
      [] s = "check_cur_trade" -> "process_prediction"
      [] s = "process_prediction" -> "save_last_data"
      [] OTHER -> "finally"

\* A step of the try block completes normally.
CycleStepOk ==
    /\ mainpc \in CycleSteps
    /\ mainpc' = NextCycleStep(mainpc)
    /\ UNCHANGED <<new_data_event, data_lock, is_processing, model,
                   model_fitted, last_exc, exit_called, feed_buf, feed_data,
                   commit_count>>
    /\ UNCHANGED mainframe

\* prepare_last_x returned an empty frame: log and return (through finally).
CycleEmptyFeatures ==
    /\ mainpc = "prepare_last_x"
    /\ mainpc' = "finally"
    /\ UNCHANGED <<new_data_event, data_lock, is_processing, model,
                   model_fitted, last_exc, exit_called, feed_buf, feed_data,
                   commit_count>>
    /\ UNCHANGED mainframe

\* Faulty variant: process_new_data without its except clause.
CycleRaise_Uncaught ==
    /\ mainpc \in CycleSteps
    /\ last_exc' = mainpc
    /\ is_processing' = FALSE
    /\ mainpc' = "except"
    /\ UNCHANGED <<new_data_event, data_lock, model, model_fitted,
                   exit_called, feed_buf, feed_data, commit_count>>
    /\ UNCHANGED mainframe

\* A step of the try block raises: except Exception logs the error, then
\* control goes to the finally clause.
CycleRaise ==
    /\ mainpc \in CycleSteps
    /\ last_exc' = mainpc
    /\ mainpc' = "finally"
    /\ UNCHANGED <<new_data_event, data_lock, is_processing, model,
                   model_fitted, exit_called, feed_buf, feed_data,
                   commit_count>>
    /\ UNCHANGED mainframe

\* Faulty variant: the cycle ends without the finally clause resetting the flag.
CycleFinally_KeepsFlag ==
    /\ mainpc = "finally"
    /\ is_processing' = is_processing
    /\ mainpc' = "sleep"
    /\ UNCHANGED <<new_data_event, data_lock, model, model_fitted, last_exc,
                   exit_called, feed_buf, feed_data, commit_count>>
    /\ UNCHANGED mainframe

\* finally: self.is_processing = False; process_new_data returns.
CycleFinally ==
    /\ mainpc = "finally"
    /\ is_processing' = FALSE
    /\ mainpc' = "sleep"
    /\ UNCHANGED <<new_data_event, data_lock, model, model_fitted, last_exc,
                   exit_called, feed_buf, feed_data, commit_count>>
    /\ UNCHANGED mainframe

\* Faulty variant: the event is cleared at the end of the iteration, after the
\* data was processed, as well.
LoopSleep_ClearLate ==
    /\ mainpc = "sleep"
    /\ mainpc' = "is_alive"
    /\ new_data_event' = FALSE
    /\ UNCHANGED <<data_lock, is_processing, model, model_fitted, last_exc,
                   exit_called, feed_buf, feed_data, commit_count>>
    /\ UNCHANGED mainframe

\* time.sleep(processing_interval), then "Refresh live status".
LoopSleep ==
    /\ mainpc = "sleep"
    /\ mainpc' = "is_alive"
    /\ UNCHANGED <<new_data_event, data_lock, is_processing, model,
                   model_fitted, last_exc, exit_called, feed_buf, feed_data,
                   commit_count>>
    /\ UNCHANGED mainframe

(***************************************************************************)
(* StrategyBase.learn: first run called by run(), later runs by the Timer  *)
(* that the finally clause of the previous run started.                    *)
(***************************************************************************)
learnframe == <<mainpc, new_data_event, is_processing, last_exc, exit_called,
                feedpc, feed_age, next_item, learn_interval, otherthanloop>>

\* Truth value of `if self.learn_interval:`.
Truthy(interval) == interval # NoInterval /\ interval # 0

\* Steps of learn() between apply_buffers and the finally clause.
LearnSteps == {"apply_save", "prepare_xy", "pipe_fit", "get_model",
               "model_fit", "save_model"}

\* Timer thread calls self.learn.
TimerFire ==
    /\ timers > 0
    /\ learnpc = "idle"
    /\ timers' = timers - 1
    /\ learnpc' = "apply_buffers"
    /\ learn_result' = "running"
    /\ UNCHANGED <<data_lock, model, model_fitted, feed_buf, feed_data,
                   commit_count, learn_escaped>>
    /\ UNCHANGED learnframe

\* learn: self.apply_buffers(), lock taken and buffers applied
LearnApplyEnter ==
    /\ learnpc = "apply_buffers"
    /\ ApplyBuffersEnter("learn")
    /\ learnpc' = "apply_save"
    /\ UNCHANGED <<model, model_fitted, timers, learn_result, learn_escaped>>
    /\ UNCHANGED learnframe

\* apply_buffers returns normally
LearnApplyExit ==
    /\ learnpc = "apply_save"
    /\ ApplyBuffersExit("learn")
    /\ learnpc' = "can_learn"
    /\ UNCHANGED <<model, model_fitted, feed_buf, feed_data, commit_count,
                   timers, learn_result, learn_escaped>>
    /\ UNCHANGED learnframe

\* Faulty variant: learn() goes on although can_learn() is false.
LearnCanLearn_Ignored ==
    /\ learnpc = "can_learn"
    /\ \E has_min_history \in BOOLEAN :
          /\ learnpc' = "prepare_xy"
          /\ learn_result' = IF has_min_history THEN learn_result
                             ELSE "cannot_learn"
    /\ UNCHANGED <<data_lock, model, model_fitted, feed_buf, feed_data,
                   commit_count, timers, learn_escaped>>
    /\ UNCHANGED learnframe

\* if not self.can_learn(): return
LearnCanLearn ==
    /\ learnpc = "can_learn"
    /\ \E has_min_history \in BOOLEAN :
          IF has_min_history
             THEN /\ learnpc' = "prepare_xy"
                  /\ learn_result' = learn_result
             ELSE /\ learnpc' = "finally"
                  /\ learn_result' = "cannot_learn"
    /\ UNCHANGED <<data_lock, model, model_fitted, feed_buf, feed_data,
                   commit_count, timers, learn_escaped>>
    /\ UNCHANGED learnframe

\* train_X, train_y = self.prepare_xy(); if len(train_X.index) >= self.min_xy_len
LearnPrepareXY ==
    /\ learnpc = "prepare_xy"
    /\ \E enough \in BOOLEAN :
          IF enough
             THEN /\ learnpc' = "pipe_fit"
                  /\ learn_result' = learn_result
             ELSE /\ learnpc' = "finally"
                  /\ learn_result' = "too_little_data"
    /\ UNCHANGED <<data_lock, model, model_fitted, feed_buf, feed_data,
                   commit_count, timers, learn_escaped>>
    /\ UNCHANGED learnframe

\* create_pipe when missing, X_pipe.fit, y_pipe.fit, transform
LearnPipeFit ==
    /\ learnpc = "pipe_fit"
    /\ learnpc' = "get_model"
    /\ UNCHANGED <<data_lock, model, model_fitted, feed_buf, feed_data,
                   commit_count, timers, learn_result, learn_escaped>>
    /\ UNCHANGED learnframe

\* if not self.model: self.model = get_last_trade_ready_model or create_model
LearnGetModel ==
    /\ learnpc = "get_model"
    /\ model' = TRUE
    /\ learnpc' = "model_fit"
    /\ UNCHANGED <<data_lock, model_fitted, feed_buf, feed_data,
                   commit_count, timers, learn_result, learn_escaped>>
    /\ UNCHANGED learnframe

\* self.model.fit(X_trans, y_trans)
LearnModelFit ==
    /\ learnpc = "model_fit"
    /\ model_fitted' = TRUE
    /\ learnpc' = "save_model"
    /\ UNCHANGED <<data_lock, model, feed_buf, feed_data, commit_count,
                   timers, learn_result, learn_escaped>>
    /\ UNCHANGED learnframe

\* self.model_persister.save_model(self.model); clear_session; gc.collect
LearnSaveModel ==
    /\ learnpc = "save_model"
    /\ learnpc' = "finally"
    /\ learn_result' = "completed"
    /\ UNCHANGED <<data_lock, model, model_fitted, feed_buf, feed_data,
                   commit_count, timers, learn_escaped>>
    /\ UNCHANGED learnframe

\* The lock as a raising step of learn() leaves it: an exception inside
\* apply_buffers leaves the with-block, which releases the lock.
LockAfterRaise == IF learnpc = "apply_save" THEN "none" ELSE data_lock

\* Faulty variant: an exception leaves learn() without passing the finally clause.
LearnRaise_NoFinally ==
    /\ learnpc \in LearnSteps
    /\ data_lock' = LockAfterRaise
    /\ learn_result' = "exception"
    /\ learn_escaped' = TRUE
    /\ learnpc' = "idle"
    /\ UNCHANGED <<model, model_fitted, feed_buf, feed_data, commit_count,
                   timers>>
    /\ UNCHANGED learnframe

\* A step of learn() raises: there is no except clause, control goes to the
\* finally clause with the exception pending.
LearnRaise ==
    /\ learnpc \in LearnSteps
    /\ data_lock' = LockAfterRaise
    /\ learn_result' = "exception"
    /\ learnpc' = "finally"
    /\ UNCHANGED <<model, model_fitted, feed_buf, feed_data, commit_count,
                   timers, learn_escaped>>
    /\ UNCHANGED learnframe

\* Faulty variant: the finally clause swallows the pending exception.
LearnFinally_Swallow ==
    /\ learnpc = "finally"
    /\ timers' = IF Truthy(learn_interval) THEN timers + 1 ELSE timers
    /\ learn_escaped' = learn_escaped
    /\ learnpc' = "idle"
    /\ UNCHANGED <<data_lock, model, model_fitted, feed_buf, feed_data,
                   commit_count, learn_result>>
    /\ UNCHANGED learnframe

\* finally: if self.learn_interval: Timer(seconds, self.learn).start();
\* then a pending exception propagates to the caller of learn().
LearnFinally ==
    /\ learnpc = "finally"
    /\ timers' = IF Truthy(learn_interval) THEN timers + 1 ELSE timers
    /\ learn_escaped' = (learn_escaped \/ learn_result = "exception")
    /\ learnpc' = "idle"
    /\ UNCHANGED <<data_lock, model, model_fitted, feed_buf, feed_data,
                   commit_count, learn_result>>
    /\ UNCHANGED learnframe

LearnNext ==
    \/ TimerFire
    \/ LearnApplyEnter
    \/ LearnApplyExit
    \/ LearnCanLearn
    \/ LearnPrepareXY
    \/ LearnPipeFit
    \/ LearnGetModel
    \/ LearnModelFit
    \/ LearnSaveModel
    \/ LearnRaise
    \/ LearnFinally

MainNext ==
    \/ LoopIsAlive
    \/ LoopWait
    \/ LoopClear
    \/ LoopApplyEnter
    \/ LoopApplyExit
    \/ LoopApplyRaise
    \/ LoopExcept
    \/ ProcessGuard
    \/ CycleStepOk
    \/ CycleEmptyFeatures
    \/ CycleRaise
    \/ CycleFinally
    \/ LoopSleep


FeedNext ==
    \/ FeedAppend
    \/ FeedSet

(***************************************************************************)
(* Trade gate: process_prediction / process_signal of the three strategy   *)
(* classes, with the broker and the risk manager as collaborators.         *)
(***************************************************************************)
Strategies == {"LgbLowHighRegressionStrategy", "LongCandleLgbStrategy",
               "LongCandleStrategyBase"}

Signals == {-1, 0, 1}

\* Faulty variant: trading is still refused at the moment the cooldown ends.
CanTrade_Strict == last_loss = -1 \/ now - last_loss > WaitAfterLoss

\* RiskManager.can_trade(): no loss on record, or the cooldown has elapsed.
\* (RiskManager is not part of the sources; modelled from the specification.)
CanTrade == last_loss = -1 \/ now - last_loss >= WaitAfterLoss

\* signal_ext['open_price'] = None
NoPrice == 0

\* Open prices the broker may report for a created trade.
OpenPrices == 1..MaxOpenPrice

\* broker.create_cur_trade(...): the broker opens the trade or fails to.
\* (The broker is not part of the sources; modelled from the specification.)
BrokerCreateCurTrade(direction, created) ==
    cur_trade' = IF created THEN direction ELSE cur_trade

\* The record of a call before it has read or done anything.
NoCycle == [signal |-> 0, can_trade |-> TRUE, had_trade |-> FALSE,
            requested |-> FALSE, status |-> "None", saved |-> 0,
            at |-> -1, loss_at |-> -1, trade_after |-> FALSE,
            open_price |-> NoPrice, trade_open_price |-> NoPrice,
            created_price |-> NoPrice, raised |-> FALSE]

\* Faulty variant: the gate does not look at the current trade.
LgbGate_NoTradeTest(signal, cur_trade_ok, risk_manager_ok) ==
    signal # 0 /\ risk_manager_ok

\* LgbLowHighRegressionStrategy.process_prediction:
\* if signal and cur_trade_ok and risk_manager_ok
LgbGate(signal, cur_trade_ok, risk_manager_ok) ==
    signal # 0 /\ cur_trade_ok /\ risk_manager_ok

\* Faulty variant: the three tests in the reverse order of precedence.
LgbStatus_RiskFirst(signal, cur_trade_ok, risk_manager_ok) ==
    IF ~risk_manager_ok THEN "risk_manager_oom"
    ELSE IF ~cur_trade_ok THEN "already_in_market"
    ELSE IF signal = 0 THEN "signal_oom"
    ELSE "None"

\* signal_ext['status'] as set by the three ifs before the gate: the later
\* assignment overwrites the earlier one.
LgbStatus(signal, cur_trade_ok, risk_manager_ok) ==
    IF signal = 0 THEN "signal_oom"
    ELSE IF ~cur_trade_ok THEN "already_in_market"
    ELSE IF ~risk_manager_ok THEN "risk_manager_oom"
    ELSE "None"

\* After create_cur_trade: `if self.broker.cur_trade:` open_price and status
\* 'order_created', else None and 'order_not_created'.
LgbOutcome(trade_exists, trade_open_price) ==
    IF trade_exists
       THEN [status |-> "order_created", open_price |-> trade_open_price]
       ELSE [status |-> "order_not_created", open_price |-> NoPrice]

\* process_prediction, line 103: risk_manager_ok = risk_manager.can_trade(),
\* read with the signal of lines 71-87 before anything else of the broker.
LgbReadCanTrade ==
    /\ strategy = "LgbLowHighRegressionStrategy"
    /\ gatepc = "idle"
    /\ \E signal \in Signals :
         gate_call' = [NoCycle EXCEPT !.signal = signal,
                                      !.can_trade = CanTrade,
                                      !.at = now,
                                      !.loss_at = last_loss]
    /\ gatepc' = "cur_trade"
    /\ UNCHANGED <<strategy, now, cur_trade, last_loss, cycle,
                   otherthangate>>

\* process_prediction, lines 108-115: cur_trade_ok = broker.cur_trade is
\* None, the three status ifs and the gate.
LgbReadCurTrade ==
    /\ gatepc = "cur_trade"
    /\ LET cur_trade_ok == cur_trade = NoTrade
           read == [gate_call EXCEPT !.had_trade = ~cur_trade_ok]
       IN IF LgbGate(gate_call.signal, cur_trade_ok, gate_call.can_trade)
             THEN /\ gate_call' = [read EXCEPT !.requested = TRUE]
                  /\ gatepc' = "create"
             ELSE /\ gate_call' = [read EXCEPT
                                     !.status = LgbStatus(gate_call.signal,
                                                          cur_trade_ok,
                                                          gate_call.can_trade),
                                     !.trade_after = ~cur_trade_ok]
                  /\ gatepc' = "save"
    /\ UNCHANGED <<strategy, now, cur_trade, last_loss, cycle,
                   otherthangate>>

\* process_prediction, lines 116-122: broker.create_cur_trade(...) returns
\* with the trade opened at some price, or without one.
LgbCreateCurTrade ==
    /\ gatepc = "create"
    /\ \E created \in BOOLEAN, price \in OpenPrices :
         /\ BrokerCreateCurTrade(gate_call.signal, created)
         /\ gate_call' = [gate_call EXCEPT
                            !.created_price = IF created THEN price
                                              ELSE NoPrice]
    /\ gatepc' = "outcome"
    /\ UNCHANGED <<strategy, now, last_loss, cycle, otherthangate>>

\* process_prediction, lines 116-122: broker.create_cur_trade(...) raises,
\* having opened the trade or not; the call ends there, lines 123-133 are
\* not run.
LgbCreateCurTradeRaises ==
    /\ gatepc = "create"
    /\ \E created \in BOOLEAN :
         BrokerCreateCurTrade(gate_call.signal, created)
    /\ cycle' = [gate_call EXCEPT !.raised = TRUE]
    /\ gate_call' = NoCycle
    /\ gatepc' = "idle"
    /\ UNCHANGED <<strategy, now, last_loss, otherthangate>>

\* process_prediction, line 123: `if self.broker.cur_trade:`; without a
\* trade lines 127-128 set None and 'order_not_created'.
LgbReadOutcome ==
    /\ gatepc = "outcome"
    /\ LET trade_exists == cur_trade # NoTrade
           outcome == LgbOutcome(FALSE, NoPrice)
       IN IF trade_exists
             THEN /\ gate_call' = [gate_call EXCEPT !.trade_after = TRUE]
                  /\ gatepc' = "open_price"
             ELSE /\ gate_call' = [gate_call EXCEPT
                                     !.status = outcome.status,
                                     !.open_price = outcome.open_price]
                  /\ gatepc' = "save"
    /\ UNCHANGED <<strategy, now, cur_trade, last_loss, cycle,
                   otherthangate>>

\* process_prediction, lines 124-125: broker.cur_trade is read a second
\* time for its open_price; when the trade was closed since line 123 the
\* attribute access on None raises and the call ends there.
LgbReadOpenPrice ==
    /\ gatepc = "open_price"
    /\ IF cur_trade # NoTrade
          THEN LET outcome == LgbOutcome(TRUE, gate_call.created_price)
               IN /\ gate_call' = [gate_call EXCEPT
                                     !.status = outcome.status,
                                     !.open_price = outcome.open_price,
                                     !.trade_open_price =
                                         gate_call.created_price]
                  /\ gatepc' = "save"
                  /\ cycle' = cycle
          ELSE /\ cycle' = [gate_call EXCEPT !.raised = TRUE]
               /\ gate_call' = NoCycle
               /\ gatepc' = "idle"
    /\ UNCHANGED <<strategy, now, cur_trade, last_loss, otherthangate>>

\* process_prediction, line 133: data_persister.save_last_data(...) writes
\* signal_ext, or raises without having written it.
LgbSaveLastData ==
    /\ gatepc = "save"
    /\ \E written \in BOOLEAN :
         cycle' = IF written THEN [gate_call EXCEPT !.saved = 1]
                  ELSE [gate_call EXCEPT !.raised = TRUE]
    /\ gate_call' = NoCycle
    /\ gatepc' = "idle"
    /\ UNCHANGED <<strategy, now, cur_trade, last_loss, otherthangate>>

\* LongCandleLgbStrategy.process_prediction, lines 64-80: the signal is
\* calculated and `if signal:` broker.create_cur_trade(...) is called with
\* no look at the current trade or the risk manager; the broker returns or
\* raises, having opened the trade or not.  When it raises the call ends
\* there and line 91 is not run.
LongCandleLgbProcessPrediction ==
    /\ strategy = "LongCandleLgbStrategy"
    /\ gatepc = "idle"
    /\ \E signal \in Signals, created \in BOOLEAN, raises \in BOOLEAN :
         /\ IF signal # 0
               THEN BrokerCreateCurTrade(signal, created)
               ELSE cur_trade' = cur_trade
         /\ LET call == [NoCycle EXCEPT
                           !.signal = signal,
                           !.can_trade = CanTrade,
                           !.had_trade = cur_trade # NoTrade,
                           !.requested = signal # 0,
                           !.at = now,
                           !.loss_at = last_loss,
                           !.trade_after = cur_trade' # NoTrade]
            IN IF signal # 0 /\ raises
                  THEN /\ cycle' = [call EXCEPT !.raised = TRUE]
                       /\ gate_call' = NoCycle
                       /\ gatepc' = "idle"
                  ELSE /\ cycle' = cycle
                       /\ gate_call' = call
                       /\ gatepc' = "signal_ext"
    /\ UNCHANGED <<strategy, now, last_loss, otherthangate>>

\* LongCandleLgbStrategy.process_prediction, line 91:
\* data_persister.save_last_data(...) writes signal_ext, or raises without
\* having written it.
LongCandleLgbSaveLastData ==
    /\ gatepc = "signal_ext"
    /\ \E written \in BOOLEAN :
         cycle' = IF written THEN [gate_call EXCEPT !.saved = 1]
                  ELSE [gate_call EXCEPT !.raised = TRUE]
    /\ gate_call' = NoCycle
    /\ gatepc' = "idle"
    /\ UNCHANGED <<strategy, now, cur_trade, last_loss, otherthangate>>

\* LongCandleStrategyBase.process_signal, one whole call:
\* `if not signal: return`; otherwise broker.create_cur_trade(...) returns
\* or raises, having opened the trade or not.  Nothing is saved here.
LongCandleProcessSignal ==
    /\ strategy = "LongCandleStrategyBase"
    /\ gatepc = "idle"
    /\ \E signal \in Signals, created \in BOOLEAN, raises \in BOOLEAN :
         /\ IF signal # 0
               THEN BrokerCreateCurTrade(signal, created)
               ELSE cur_trade' = cur_trade
         /\ cycle' = [NoCycle EXCEPT
                        !.signal = signal,
                        !.can_trade = CanTrade,
                        !.had_trade = cur_trade # NoTrade,
                        !.requested = signal # 0,
                        !.at = now,
                        !.loss_at = last_loss,
                        !.trade_after = cur_trade' # NoTrade,
                        !.raised = signal # 0 /\ raises]
    /\ UNCHANGED <<strategy, now, last_loss, gatepc, gate_call,
                   otherthangate>>

\* The broker reports the current trade closed (stop loss or take profit);
\* a loss is recorded for the risk manager.
TradeClosed ==
    /\ cur_trade # NoTrade
    /\ cur_trade' = NoTrade
    /\ \E loss \in BOOLEAN :
         last_loss' = IF loss THEN now ELSE last_loss
    /\ UNCHANGED <<strategy, now, cycle, gatepc, gate_call, otherthangate>>

\* The wall clock of the gate advances.
GateTick ==
    /\ now < MaxTime
    /\ now' = now + 1
    /\ UNCHANGED <<strategy, cur_trade, last_loss, cycle, gatepc, gate_call,
                   otherthangate>>

GateNext ==
    \/ LgbReadCanTrade
    \/ LgbReadCurTrade
    \/ LgbCreateCurTrade
    \/ LgbCreateCurTradeRaises
    \/ LgbReadOutcome
    \/ LgbReadOpenPrice
    \/ LgbSaveLastData
    \/ LongCandleLgbProcessPrediction
    \/ LongCandleLgbSaveLastData
    \/ LongCandleProcessSignal
    \/ TradeClosed
    \/ GateTick

(***************************************************************************)
(* PredictLowHighStrategy: the feed callbacks on_level2 and on_ticker,     *)
(* each delivered on a thread of its own; each callback appends its data,  *)
(* calls learn_or_skip() and then process_new_data().                      *)
(***************************************************************************)
Callbacks == {"on_level2", "on_ticker"}

\* The data set a callback appends to.
FeedOf(t) == IF t = "on_level2" THEN "level2" ELSE "bid_ask"

\* Positions of a callback thread at which learn() is past its guard and
\* before the end of its finally clause.
InLearn == {"learn_set", "features", "fit", "learn_finally"}

\* self.min_history_interval = pd.Timedelta("2 seconds")
MinHistoryInterval == 2

\* can_learn(): not learning, both data sets non-empty, and the bid_ask rows
\* span at least min_history_interval.
PlhCanLearn ==
    /\ ~is_learning
    /\ plh_feeds = {"level2", "bid_ask"}
    /\ ~(plh_span < MinHistoryInterval)

\* on_level2 / on_ticker: self.level2 = self.level2.append(new_df); a new
\* bid_ask row widens the span of the index by dt seconds (the first row
\* spans nothing).
PlhOnEvent(t) ==
    /\ plhpc[t] = "idle"
    /\ plh_feeds' = plh_feeds \cup {FeedOf(t)}
    /\ \E dt \in 0..1 :
         plh_span' = IF t = "on_ticker" /\ "bid_ask" \in plh_feeds
                        /\ plh_span + dt <= MaxSpan
                        THEN plh_span + dt
                        ELSE plh_span
    /\ plhpc' = [plhpc EXCEPT ![t] = "learn_or_skip"]
    /\ UNCHANGED <<is_learning, plh_processing, plh_model, plh_exc,
                   otherthanplh>>

\* PeriodicalLearnStrategy.learn_or_skip (not part of the sources): calls
\* learn() when can_learn() holds and the learn interval has elapsed.
PlhLearnOrSkip(t) ==
    /\ plhpc[t] = "learn_or_skip"
    /\ \E interval_elapsed \in BOOLEAN :
         plhpc' = [plhpc EXCEPT ![t] =
                     IF PlhCanLearn /\ interval_elapsed THEN "learn"
                                                        ELSE "process"]
    /\ UNCHANGED <<plh_span, is_learning, plh_processing, plh_model, plh_exc,
                   plh_feeds, otherthanplh>>

\* learn: if self.is_learning: return
PlhLearnGuard(t) ==
    /\ plhpc[t] = "learn"
    /\ plhpc' = [plhpc EXCEPT ![t] =
                   IF is_learning THEN "process" ELSE "learn_set"]
    /\ UNCHANGED <<plh_span, is_learning, plh_processing, plh_model, plh_exc,
                   plh_feeds, otherthanplh>>

\* learn: self._log.info("Learning"); self.is_learning = True
PlhLearnSet(t) ==
    /\ plhpc[t] = "learn_set"
    /\ is_learning' = TRUE
    /\ plhpc' = [plhpc EXCEPT ![t] = "features"]
    /\ UNCHANGED <<plh_span, plh_processing, plh_model, plh_exc, plh_feeds,
                   otherthanplh>>

\* learn: features_targets_of; create_pipe; if not train_X.empty
PlhFeatures(t) ==
    /\ plhpc[t] = "features"
    /\ \E empty \in BOOLEAN :
         plhpc' = [plhpc EXCEPT ![t] =
                     IF empty THEN "learn_finally" ELSE "fit"]
    /\ UNCHANGED <<plh_span, is_learning, plh_processing, plh_model, plh_exc,
                   plh_feeds, otherthanplh>>

\* learn: model.fit(train_X, train_y); self.model = model
PlhFit(t) ==
    /\ plhpc[t] = "fit"
    /\ plh_model' = TRUE
    /\ plhpc' = [plhpc EXCEPT ![t] = "learn_finally"]
    /\ UNCHANGED <<plh_span, is_learning, plh_processing, plh_exc, plh_feeds,
                   otherthanplh>>

\* learn: features_targets_of or model.fit raises; control goes to finally
\* with the exception pending.
PlhLearnRaise(t) ==
    /\ plhpc[t] \in {"features", "fit"}
    /\ plh_exc' = [plh_exc EXCEPT ![t] = TRUE]
    /\ plhpc' = [plhpc EXCEPT ![t] = "learn_finally"]
    /\ UNCHANGED <<plh_span, is_learning, plh_processing, plh_model, plh_feeds,
                   otherthanplh>>

\* learn: finally: self.is_learning = False; a pending exception leaves
\* learn(), learn_or_skip() and the callback.
PlhLearnFinally(t) ==
    /\ plhpc[t] = "learn_finally"
    /\ is_learning' = FALSE
    /\ plhpc' = [plhpc EXCEPT ![t] = IF plh_exc[t] THEN "raised" ELSE "process"]
    /\ UNCHANGED <<plh_span, plh_processing, plh_model, plh_exc, plh_feeds,
                   otherthanplh>>

\* process_new_data: if not bid_ask.empty and not level2.empty and
\* self.model and not self.is_processing
PlhProcessGuard(t) ==
    /\ plhpc[t] = "process"
    /\ plhpc' = [plhpc EXCEPT ![t] =
                   IF plh_feeds = {"level2", "bid_ask"} /\ plh_model
                      /\ ~plh_processing
                      THEN "process_set" ELSE "idle"]
    /\ UNCHANGED <<plh_span, is_learning, plh_processing, plh_model, plh_exc,
                   plh_feeds, otherthanplh>>

\* process_new_data: self.is_processing = True
PlhProcessSet(t) ==
    /\ plhpc[t] = "process_set"
    /\ plh_processing' = TRUE
    /\ plhpc' = [plhpc EXCEPT ![t] = "predict"]
    /\ UNCHANGED <<plh_span, is_learning, plh_model, plh_exc, plh_feeds,
                   otherthanplh>>

\* process_new_data: y = self.predict_low_high(); self.is_processing = False
PlhPredict(t) ==
    /\ plhpc[t] = "predict"
    /\ plh_processing' = FALSE
    /\ plhpc' = [plhpc EXCEPT ![t] = "idle"]
    /\ UNCHANGED <<plh_span, is_learning, plh_model, plh_exc, plh_feeds,
                   otherthanplh>>

\* process_new_data: predict_low_high raises; there is no try, the flag is
\* not reset and the exception leaves the callback.
PlhPredictRaise(t) ==
    /\ plhpc[t] = "predict"
    /\ plh_exc' = [plh_exc EXCEPT ![t] = TRUE]
    /\ plhpc' = [plhpc EXCEPT ![t] = "raised"]
    /\ UNCHANGED <<plh_span, is_learning, plh_processing, plh_model, plh_feeds,
                   otherthanplh>>

\* The feed's dispatcher has reported the callback's exception; the thread
\* is ready for the next event.
PlhCallbackReturn(t) ==
    /\ plhpc[t] = "raised"
    /\ plh_exc' = [plh_exc EXCEPT ![t] = FALSE]
    /\ plhpc' = [plhpc EXCEPT ![t] = "idle"]
    /\ UNCHANGED <<plh_span, is_learning, plh_processing, plh_model, plh_feeds,
                   otherthanplh>>

PlhNext ==
    \E t \in Callbacks :
       \/ PlhOnEvent(t)
       \/ PlhLearnOrSkip(t)
       \/ PlhLearnGuard(t)
       \/ PlhLearnSet(t)
       \/ PlhFeatures(t)
       \/ PlhFit(t)
       \/ PlhLearnRaise(t)
       \/ PlhLearnFinally(t)
       \/ PlhProcessGuard(t)
       \/ PlhProcessSet(t)
       \/ PlhPredict(t)
       \/ PlhPredictRaise(t)
       \/ PlhCallbackReturn(t)

PlhInit ==
    /\ plhpc = [t \in Callbacks |-> "idle"]
    /\ is_learning = FALSE
    /\ plh_processing = FALSE
    /\ plh_model = FALSE
    /\ plh_exc = [t \in Callbacks |-> FALSE]
    /\ plh_feeds = {}
    /\ plh_span = 0

(***************************************************************************)
(* TrailingStopSupport.on_price_changed, with the exchange and the broker  *)
(* (update_cur_trade_status, cancel_order, create_closing_order, order     *)
(* updates) as collaborators.                                              *)
(***************************************************************************)
\* TradeDetail ticks: direction of the market trade and its price.
Prices == {TakeProfit - 1, TakeProfit, TakeProfit + 1}

Ticks == [direction : {"buy", "sell"}, price : Prices]

\* event.data: between 1 and MaxBatch ticks.
Batches == UNION {[1..n -> Ticks] : n \in 1..MaxBatch}

NoTssTrade == [dir |-> 0, status |-> "absent"]

\* not self.cur_trade or self.cur_trade.status != TradeStatus.opened, negated
TssOpened(trade) == trade.status # "absent" /\ trade.status = "opened"

\* Faulty variant: the entry guard tests only that a trade exists.
TssEntryGuard_NoStatus(trade) == trade.status # "absent"

\* on_price_changed, first statement: proceed only with an opened trade.
TssEntryGuard(trade) == TssOpened(trade)

\* Faulty variant: the status is not looked at after the re-fetch.
TssRecheck_Skip(trade) == TRUE

\* After update_cur_trade_status(): go on only if the trade is still opened.
TssRecheck(trade) == TssOpened(trade)

\* is_buy_tp or is_sell_tp: the tick's own direction selects the comparison.
IsTp(e) ==
    \/ e.direction = "buy" /\ e.price >= TakeProfit
    \/ e.direction = "sell" /\ e.price <= TakeProfit

\* on_price_changed is called with a tick batch: the guard of line 38 is
\* evaluated before the lock is asked for.
TssCall ==
    /\ tsspc = "idle"
    /\ \E batch \in Batches :
         /\ tss_batch' = batch
         /\ tss_idx' = 1
         /\ tss_log' = <<>>
         /\ tss_stale' = FALSE
         /\ tss_escaped' = FALSE
         /\ IF TssEntryGuard(tss_trade)
               THEN /\ tsspc' = "acquire"
                    /\ tss_last' = "running"
               ELSE /\ tsspc' = "idle"
                    /\ tss_last' = "noop"
    /\ UNCHANGED <<tss_trade, exch_closed, trade_lock, tss_initiated,
                   otherthantss>>

\* with self.trade_lock: the call waits while the broker holds the lock;
\* with the None of __init__ the statement raises outside the try and the
\* exception leaves on_price_changed.
TssAcquire ==
    /\ tsspc = "acquire"
    /\ trade_lock \in {"none", "unset"}
    /\ IF trade_lock = "unset"
          THEN /\ tss_escaped' = TRUE
               /\ tsspc' = "idle"
               /\ tss_last' = "escaped"
               /\ trade_lock' = trade_lock
          ELSE /\ tss_escaped' = tss_escaped
               /\ tsspc' = "loop"
               /\ tss_last' = tss_last
               /\ trade_lock' = "tss"
    /\ UNCHANGED <<tss_trade, exch_closed, tss_batch, tss_idx, tss_log,
                   tss_stale, tss_initiated, otherthantss>>

\* The broker class that mixes TrailingStopSupport in (not part of the
\* sources) gives the mixin its trade lock.
BrokerSetsTradeLock ==
    /\ trade_lock = "unset"
    /\ trade_lock' = "none"
    /\ UNCHANGED <<tss_trade, exch_closed, tsspc, tss_batch, tss_idx,
                   tss_log, tss_stale, tss_last, tss_escaped, tss_initiated,
                   otherthantss>>

\* for element in event.data: the tick does not qualify, next tick.
TssTickSkip ==
    /\ tsspc = "loop"
    /\ tss_idx <= Len(tss_batch)
    /\ tss_trade.status # "absent"
    /\ ~IsTp(tss_batch[tss_idx])
    /\ tss_idx' = tss_idx + 1
    /\ UNCHANGED <<tss_trade, exch_closed, trade_lock, tsspc, tss_batch,
                   tss_log, tss_stale, tss_last, tss_escaped, tss_initiated, otherthantss>>

\* The tick qualifies: "Reread from stock exchange" comes next.
TssTickTp ==
    /\ tsspc = "loop"
    /\ tss_idx <= Len(tss_batch)
    /\ tss_trade.status # "absent"
    /\ IsTp(tss_batch[tss_idx])
    /\ tsspc' = "update"
    /\ UNCHANGED <<tss_trade, exch_closed, trade_lock, tss_batch, tss_idx,
                   tss_log, tss_stale, tss_last, tss_escaped, tss_initiated, otherthantss>>

\* The for loop is exhausted: the with-block ends.
TssLoopEnd ==
    /\ tsspc = "loop"
    /\ tss_idx > Len(tss_batch)
    /\ tsspc' = "idle"
    /\ trade_lock' = "none"
    /\ tss_last' = "done"
    /\ UNCHANGED <<tss_trade, exch_closed, tss_batch, tss_idx, tss_log,
                   tss_stale, tss_escaped, tss_initiated, otherthantss>>

\* self.update_cur_trade_status() (broker, not part of the sources): the
\* trade the exchange has closed becomes closed or is dropped; then
\* `if not self.cur_trade or status != opened: continue`.
TssUpdate ==
    /\ tsspc = "update"
    /\ tss_log' = Append(tss_log, "update")
    /\ \E dropped \in BOOLEAN :
         tss_trade' = IF ~exch_closed THEN tss_trade
                      ELSE IF dropped THEN NoTssTrade
                      ELSE [tss_trade EXCEPT !.status = "closed"]
    /\ tss_stale' = (tss_stale \/ ~TssOpened(tss_trade'))
    /\ IF TssRecheck(tss_trade')
          THEN /\ tsspc' = "cancel"
               /\ tss_idx' = tss_idx
          ELSE /\ tsspc' = "loop"
               /\ tss_idx' = tss_idx + 1
    /\ UNCHANGED <<exch_closed, trade_lock, tss_batch, tss_last, tss_escaped, tss_initiated,
                   otherthantss>>

\* self.trade_client.cancel_order(stop_loss_order_id) succeeds.
TssCancel ==
    /\ tsspc = "cancel"
    /\ tss_log' = Append(tss_log, "cancel")
    /\ tsspc' = "close"
    /\ UNCHANGED <<tss_trade, exch_closed, trade_lock, tss_batch, tss_idx,
                   tss_stale, tss_last, tss_escaped, tss_initiated, otherthantss>>

\* Faulty variant: the closing order is submitted and the trade is marked
\* closed on the spot.
TssClose_MarksClosed ==
    /\ tsspc = "close"
    /\ tss_log' = Append(tss_log, "close")
    /\ tss_trade' = [tss_trade EXCEPT !.status = "closed"]
    /\ tsspc' = "idle"
    /\ trade_lock' = "none"
    /\ tss_last' = "initiated"
    /\ UNCHANGED <<exch_closed, tss_batch, tss_idx, tss_stale, tss_escaped, otherthantss>>
    /\ tss_initiated' = TRUE

\* Faulty variant: no break after the closing order, the loop goes on.
TssClose_NoBreak ==
    /\ tsspc = "close"
    /\ tss_log' = Append(tss_log, "close")
    /\ tsspc' = "loop"
    /\ tss_idx' = tss_idx + 1
    /\ UNCHANGED <<tss_trade, exch_closed, trade_lock, tss_batch, tss_stale,
                   tss_last, tss_escaped, otherthantss>>
    /\ tss_initiated' = TRUE

\* self.create_closing_order(trade=self.cur_trade, cancel_sl_tp=False)
\* succeeds; break; the with-block ends.
TssClose ==
    /\ tsspc = "close"
    /\ tss_log' = Append(tss_log, "close")
    /\ tsspc' = "idle"
    /\ trade_lock' = "none"
    /\ tss_last' = "initiated"
    /\ UNCHANGED <<tss_trade, exch_closed, tss_batch, tss_idx, tss_stale,
                   tss_escaped, otherthantss>>
    /\ tss_initiated' = TRUE

\* The log entry a raising step leaves.
TssErrorEntry ==
    CASE tsspc = "loop" -> "attribute_error"
      [] tsspc = "update" -> "update_error"
      [] tsspc = "cancel" -> "cancel_error"
      [] OTHER -> "close_error"

\* Faulty variant: an error of cancel_order is swallowed and the closing
\* order is submitted all the same.
TssRaise_CancelIgnored ==
    /\ \/ tsspc \in {"update", "close"}
       \/ tsspc = "cancel"
       \/ tsspc = "loop" /\ tss_idx <= Len(tss_batch)
                         /\ tss_trade.status = "absent"
    /\ tss_log' = Append(tss_log, TssErrorEntry)
    /\ tsspc' = IF tsspc = "cancel" THEN "close" ELSE "idle"
    /\ trade_lock' = IF tsspc = "cancel" THEN trade_lock ELSE "none"
    /\ tss_last' = IF tsspc = "cancel" THEN tss_last ELSE "raised"
    /\ UNCHANGED <<tss_trade, exch_closed, tss_batch, tss_idx, tss_stale,
                   tss_escaped, tss_initiated, otherthantss>>

\* Faulty variant: the exception is caught but the trade lock stays taken.
TssRaise_KeepsLock ==
    /\ \/ tsspc \in {"update", "close"}
       \/ tsspc = "cancel"
       \/ tsspc = "loop" /\ tss_idx <= Len(tss_batch)
                         /\ tss_trade.status = "absent"
    /\ tss_log' = Append(tss_log, TssErrorEntry)
    /\ tsspc' = "idle"
    /\ tss_last' = "raised"
    /\ UNCHANGED <<tss_trade, exch_closed, trade_lock, tss_batch, tss_idx,
                   tss_stale, tss_escaped, tss_initiated,
                   otherthantss>>

\* A step inside the try block raises (the broker call fails, or
\* self.cur_trade is None when the next tick is compared): except Exception
\* logs "on_price_changed error"; the with-block ends.
TssRaise ==
    /\ \/ tsspc \in {"update", "close"}
       \/ tsspc = "cancel"
       \/ tsspc = "loop" /\ tss_idx <= Len(tss_batch)
                         /\ tss_trade.status = "absent"
    /\ tss_log' = Append(tss_log, TssErrorEntry)
    /\ tsspc' = "idle"
    /\ trade_lock' = "none"
    /\ tss_last' = "raised"
    /\ UNCHANGED <<tss_trade, exch_closed, tss_batch, tss_idx, tss_stale,
                   tss_escaped, tss_initiated, otherthantss>>

\* The exchange closes the trade: the stop-loss order triggers, or the
\* closing order is filled. The broker has not been told yet.
ExchangeCloses ==
    /\ tss_trade.status = "opened"
    /\ ~exch_closed
    /\ exch_closed' = TRUE
    /\ UNCHANGED <<tss_trade, trade_lock, tsspc, tss_batch, tss_idx, tss_log,
                   tss_stale, tss_last, tss_escaped, tss_initiated, otherthantss>>

\* The broker's order-update notification, under the trade lock when there
\* is one: the trade becomes closed, or is dropped.
BrokerOrderUpdate ==
    /\ trade_lock \in {"none", "unset"}
    /\ exch_closed
    /\ tss_trade.status \in {"opened", "closed"}
    /\ \E dropped \in BOOLEAN :
         tss_trade' = IF dropped \/ tss_trade.status = "closed"
                         THEN NoTssTrade
                         ELSE [tss_trade EXCEPT !.status = "closed"]
    /\ UNCHANGED <<exch_closed, trade_lock, tsspc, tss_batch, tss_idx,
                   tss_log, tss_stale, tss_last, tss_escaped, tss_initiated, otherthantss>>

\* The strategy opens a new trade through the broker, under the trade lock
\* when there is one.
BrokerNewTrade ==
    /\ trade_lock \in {"none", "unset"}
    /\ tss_trade.status = "absent"
    /\ \E d \in {-1, 1} : tss_trade' = [dir |-> d, status |-> "opened"]
    /\ exch_closed' = FALSE
    /\ UNCHANGED <<trade_lock, tsspc, tss_batch, tss_idx, tss_log, tss_stale,
                   tss_last, tss_escaped, otherthantss>>
    /\ tss_initiated' = FALSE

TssNext ==
    \/ TssCall
    \/ TssAcquire
    \/ BrokerSetsTradeLock
    \/ TssTickSkip
    \/ TssTickTp
    \/ TssLoopEnd
    \/ TssUpdate
    \/ TssCancel
    \/ TssClose
    \/ TssRaise
    \/ ExchangeCloses
    \/ BrokerOrderUpdate
    \/ BrokerNewTrade

\* TrailingStopSupport.__init__: no trade, self.trade_lock = None.
TssInit ==
    /\ tss_trade = NoTssTrade
    /\ exch_closed = FALSE
    /\ trade_lock = "unset"
    /\ tsspc = "idle"
    /\ tss_batch = <<>>
    /\ tss_idx = 1
    /\ tss_log = <<>>
    /\ tss_stale = FALSE
    /\ tss_last = "none"
    /\ tss_escaped = FALSE
    /\ tss_initiated = FALSE

\* The trailing-stop part when a specification does not run it.
TssOff ==
    /\ tss_trade = NoTssTrade
    /\ exch_closed = FALSE
    /\ trade_lock = "none"
    /\ tsspc = "off"
    /\ tss_batch = <<>>
    /\ tss_idx = 1
    /\ tss_log = <<>>
    /\ tss_stale = FALSE
    /\ tss_last = "none"
    /\ tss_escaped = FALSE
    /\ tss_initiated = FALSE

(***************************************************************************)
(* Level2Feed: on_level2 appends to level2_buf, update_level2 / apply_buf  *)
(* moves the buffer to level2 and purges old rows. Rows are represented by *)
(* their datetime, in seconds.                                             *)
(***************************************************************************)
\* test_Level2Feed.new_level2_feed: rows 00:10:00, 00:10:01, 00:11:00.
TestLevel2Buf == <<10 * Minute, 10 * Minute + 1, 11 * Minute>>

\* level2_history_period of the three purge tests: 1min, 2min, 0s.
TestPeriods == {Minute, 2 * Minute, 0}

RECURSIVE SeqMax(_)
SeqMax(rows) ==
    IF Len(rows) = 1 THEN rows[1]
    ELSE LET m == SeqMax(Tail(rows)) IN IF rows[1] > m THEN rows[1] ELSE m

\* Faulty variant: the age of a row is measured from the wall clock.
Level2Newest_WallClock(rows) == l2_clock

\* The newest datetime among the rows.
Level2Newest(rows) == SeqMax(rows)

\* Faulty variant: the row exactly one period old is kept.
Level2Keep_Inclusive(ts, newest, period) == ts >= newest - period

\* A row stays when it is younger than the period, seen from the newest row.
Level2Keep(ts, newest, period) == ts > newest - period

\* Faulty variant: the buffer is moved to level2 and nothing is purged.
UpdateLevel2_NoPurge(rows, period) == rows

\* update_level2: the rows that remain of level2 followed by the buffer.
UpdateLevel2(rows, period) ==
    IF rows = <<>> THEN <<>>
    ELSE SelectSeq(rows,
                   LAMBDA ts : Level2Keep(ts, Level2Newest(rows), period))

\* on_level2: a snapshot row stamped with the current time is buffered.
L2OnLevel2 ==
    /\ l2_clock <= MaxTs
    /\ Len(level2) + Len(level2_buf) < MaxRows
    /\ level2_buf' = Append(level2_buf, l2_clock)
    /\ l2_last' = "append"
    /\ l2_applies' = 0
    /\ UNCHANGED <<level2, level2_history_period, l2_clock, l2_before,
                   otherthanl2>>

\* A second passes.
L2Tick ==
    /\ l2_clock < MaxTs
    /\ l2_clock' = l2_clock + 1
    /\ l2_last' = "tick"
    /\ UNCHANGED <<level2_buf, level2, level2_history_period, l2_before,
                   l2_applies, otherthanl2>>

\* Faulty variant: apply_buffers leaves the level2 feed out.
L2ApplyBuffers_SkipLevel2 ==
    /\ l2_last' = "apply"
    /\ l2_before' = level2 \o level2_buf
    /\ l2_applies' = IF l2_applies < 2 THEN l2_applies + 1 ELSE 2
    /\ UNCHANGED <<level2_buf, level2, level2_history_period, l2_clock,
                   otherthanl2>>

\* Faulty variant: the buffer is applied and left as it was.
L2ApplyBuffers_KeepsBuf ==
    /\ level2' = UpdateLevel2(level2 \o level2_buf, level2_history_period)
    /\ l2_last' = "apply"
    /\ l2_before' = level2 \o level2_buf
    /\ l2_applies' = IF l2_applies < 2 THEN l2_applies + 1 ELSE 2
    /\ UNCHANGED <<level2_buf, level2_history_period, l2_clock, otherthanl2>>

\* StrategyBase.apply_buffers for the level2 feed:
\* `if self.level2_feed: self.level2_feed.apply_buf()`.
L2ApplyBuffers ==
    /\ level2' = UpdateLevel2(level2 \o level2_buf, level2_history_period)
    /\ level2_buf' = <<>>
    /\ l2_last' = "apply"
    /\ l2_before' = level2 \o level2_buf
    /\ l2_applies' = IF l2_applies < 2 THEN l2_applies + 1 ELSE 2
    /\ UNCHANGED <<level2_history_period, l2_clock, otherthanl2>>

L2Next ==
    \/ L2OnLevel2
    \/ L2Tick
    \/ L2ApplyBuffers

\* A fresh feed with some retention, or the feed of test_Level2Feed with its
\* buffer filled and one of the tested periods.
L2Init ==
    /\ level2 = <<>>
    /\ l2_last = "init"
    /\ l2_before = <<>>
    /\ l2_applies = 0
    /\ \/ /\ level2_buf = <<>>
          /\ level2_history_period \in 0..MaxW
          /\ l2_clock = 0
       \/ /\ level2_buf = TestLevel2Buf
          /\ level2_history_period \in TestPeriods
          /\ l2_clock = TestNow

\* The level2 part when a specification does not run it.
L2Off ==
    /\ level2_buf = <<>>
    /\ level2 = <<>>
    /\ level2_history_period = 0
    /\ l2_clock = 0
    /\ l2_last = "off"
    /\ l2_before = <<>>
    /\ l2_applies = 0

(***************************************************************************)
(* LongCandleStrategyBase.update_unchecked: features and predictions wait  *)
(* in x_unchecked / y_unchecked until the candles of the target period     *)
(* allow their targets to be computed. A row is [index, value]; the index  *)
(* is the position of the candle it belongs to.                            *)
(***************************************************************************)
\* The contents a row may have: two, to tell a replaced row from a kept
\* one.
Values == {1, 2}

NoRow == [index |-> 0, x |-> 0, y |-> 0, raised |-> FALSE]

Indices(rows) == {rows[k].index : k \in DOMAIN rows}

SetMax(S) == CHOOSE m \in S : \A i \in S : i <= m

SetMin(S) == CHOOSE m \in S : \A i \in S : m <= i

\* The rows at the positions P, in their order.
RECURSIVE PickFrom(_, _, _)
PickFrom(rows, P, k) ==
    IF k > Len(rows) THEN <<>>
    ELSE (IF k \in P THEN <<rows[k]>> ELSE <<>>) \o PickFrom(rows, P, k + 1)

\* df.iloc[~df.index.duplicated(keep='last')]
DropDuplicated(rows) ==
    PickFrom(rows,
             {k \in DOMAIN rows :
                 \A j \in DOMAIN rows : j > k => rows[j].index # rows[k].index},
             1)

\* LongCandleFeatures.targets_of: the candles followed by enough candles
\* for their target.
TargetsOf(cndls) ==
    {i \in cndls : i + TargetHorizon <= SetMax(cndls)}

\* Faulty variant: the newest checked row stays in the unchecked buffer.
StillUnchecked_Inclusive(rows, checked) ==
    IF checked = <<>> THEN <<>>
    ELSE SelectSeq(rows, LAMBDA r : r.index >= SetMax(Indices(checked)))

\* self.x_unchecked[self.x_unchecked.index > x_checked.index.max()]
StillUnchecked(rows, checked) ==
    IF checked = <<>> THEN <<>>
    ELSE SelectSeq(rows, LAMBDA r : r.index > SetMax(Indices(checked)))

\* read_candles: the next candle of the target period has closed.
UcCandle ==
    /\ uc_candles < MaxCandles
    /\ uc_candles' = uc_candles + 1
    /\ UNCHANGED <<x_unchecked, y_unchecked, x_checked, y_checked, uc_new,
                   uc_overwrote, uc_added, uc_checked, uc_in_order,
                   otherthanuc>>

\* The rows come in increasing order of their index (what pd.merge_asof
\* asks of its left frame).
IsSorted(rows) ==
    \A j, k \in DOMAIN rows : j < k => rows[j].index <= rows[k].index

\* update_unchecked(x_new, y_new) with one row of some candle: from
\* process_new_data the row of the last candle (x.tail(1)), from any other
\* caller the row of any candle. Lines 100-103 append and drop the earlier
\* duplicates without sorting the rows; line 114 (pd.merge_asof) raises on
\* checked rows that are not sorted, after lines 100-103 and before lines
\* 118-119. One value stands for the features and the prediction of a
\* call. Every frame is computed once, in the order of the code.
UpdateUnchecked ==
    /\ uc_candles >= 1
    /\ \E i \in 1..uc_candles, v \in Values :
       \E x1 \in {DropDuplicated(x_unchecked
                                   \o <<[index |-> i, value |-> v]>>)},
          y1 \in {DropDuplicated(y_unchecked
                                   \o <<[index |-> i, value |-> v]>>)} :
       \E first \in {SetMin(Indices(y1))} :
       \E y_targets \in {TargetsOf({c \in 1..uc_candles : c >= first})} :
       \E last \in {IF y_targets = {} THEN 0 ELSE SetMax(y_targets)} :
       \E xc \in {PickFrom(x1, {k \in DOMAIN y1 : y1[k].index <= last}, 1)},
          yc \in {SelectSeq(y1, LAMBDA r : r.index <= last)} :
         LET raises == y_targets # {} /\ ~IsSorted(yc)
         IN /\ x_unchecked' = IF y_targets = {} \/ raises THEN x1
                              ELSE StillUnchecked(x1, xc)
            /\ y_unchecked' = IF y_targets = {} \/ raises THEN y1
                              ELSE StillUnchecked(y1, yc)
            /\ x_checked' = IF raises THEN <<>> ELSE xc
            /\ y_checked' = IF raises THEN <<>> ELSE yc
            /\ uc_new' = [index |-> i, x |-> v, y |-> v, raised |-> raises]
            /\ uc_overwrote' =
                  \E k \in DOMAIN x_unchecked :
                      /\ x_unchecked[k].index = i
                      /\ x_unchecked[k].value # v
            /\ uc_added' = uc_added \cup {i}
            /\ uc_checked' = IF raises THEN uc_checked
                             ELSE uc_checked \cup Indices(xc)
            /\ uc_in_order' = (uc_in_order /\ \A a \in uc_added : a <= i)
    /\ UNCHANGED <<uc_candles, otherthanuc>>

UcNext ==
    \/ UcCandle
    \/ UpdateUnchecked

UcInit ==
    /\ uc_candles = 0
    /\ x_unchecked = <<>>
    /\ y_unchecked = <<>>
    /\ x_checked = <<>>
    /\ y_checked = <<>>
    /\ uc_new = NoRow
    /\ uc_overwrote = FALSE
    /\ uc_added = {}
    /\ uc_checked = {}
    /\ uc_in_order = TRUE

\* The unchecked buffers when a specification does not run them.
UcOff ==
    /\ uc_candles = -1
    /\ x_unchecked = <<>>
    /\ y_unchecked = <<>>
    /\ x_checked = <<>>
    /\ y_checked = <<>>
    /\ uc_new = NoRow
    /\ uc_overwrote = FALSE
    /\ uc_added = {}
    /\ uc_checked = {}
    /\ uc_in_order = TRUE

(***************************************************************************)
(* StrategyBase.process_new_data, call by call, with check_cur_trade and   *)
(* its throttle. The clock, the broker and the model move between the      *)
(* calls.                                                                  *)
(***************************************************************************)
\* The calls inside the try block that may raise.
ChkRaises == {"prepare_last_x", "predict", "update_cur_trade_status",
              "process_prediction", "save_last_data"}

NoChkCycle == [ran |-> FALSE, model |-> FALSE, applied |-> FALSE,
               features |-> "none", predicted |-> FALSE,
               check_called |-> FALSE, refreshed |-> FALSE,
               processed |-> FALSE, saved |-> FALSE,
               trade_before |-> FALSE, due |-> FALSE,
               checked_at |-> 0, last_before |-> 0, last_after |-> 0,
               raised |-> "none"]

\* datetime.utcnow() - self.last_trade_check_time >= self.trade_check_interval
CheckDue(t, last) == t - last >= TradeCheckInterval

\* check_cur_trade: whether broker.update_cur_trade_status() is called.
CheckCalls(trade, t, last) == trade /\ CheckDue(t, last)

\* The times of the last two calls of update_cur_trade_status, with t
\* added.
Refreshed(times, t) ==
    IF Len(times) < 2 THEN Append(times, t) ELSE <<times[2], t>>

\* The record of the call with the trade, the clock and the last check time
\* as they are now.
ChkSeen(call) ==
    [call EXCEPT !.trade_before = chk_trade,
                 !.due = CheckDue(chk_now, last_trade_check_time),
                 !.checked_at = chk_now,
                 !.last_before = last_trade_check_time,
                 !.last_after = last_trade_check_time]

\* process_new_data: self.apply_buffers(), outside the try block; what it
\* raises leaves process_new_data.
ChkApplyBuffers ==
    /\ chkpc = "idle"
    /\ \E raises \in BOOLEAN :
         IF raises
            THEN /\ chk_cycle' = ChkSeen([NoChkCycle EXCEPT
                                            !.ran = TRUE,
                                            !.model = chk_model,
                                            !.raised = "apply_buffers"])
                 /\ UNCHANGED <<chkpc, chk_call>>
            ELSE /\ chk_call' = [NoChkCycle EXCEPT !.ran = TRUE,
                                                   !.applied = TRUE]
                 /\ chkpc' = "guard"
                 /\ chk_cycle' = chk_cycle
    /\ UNCHANGED <<chk_now, last_trade_check_time, chk_trade, chk_model,
                   chk_refreshes, chk_processing, otherthanchk>>

\* process_new_data: if self.model and not self.is_processing:
\* self.is_processing = True; otherwise the call is over.
ChkGuard ==
    /\ chkpc = "guard"
    /\ IF chk_model /\ ~chk_processing
          THEN /\ chk_processing' = TRUE
               /\ chk_call' = [chk_call EXCEPT !.model = chk_model]
               /\ chkpc' = "prepare_last_x"
               /\ chk_cycle' = chk_cycle
          ELSE /\ chk_processing' = chk_processing
               /\ chk_cycle' = ChkSeen([chk_call EXCEPT !.model = chk_model])
               /\ chk_call' = NoChkCycle
               /\ chkpc' = "idle"
    /\ UNCHANGED <<chk_now, last_trade_check_time, chk_trade, chk_model,
                   chk_refreshes, otherthanchk>>

\* x = self.prepare_last_x(); empty features: log and return (through
\* finally).
ChkPrepareLastX ==
    /\ chkpc = "prepare_last_x"
    /\ \E features_empty \in BOOLEAN :
         IF features_empty
            THEN /\ chk_call' = ChkSeen([chk_call EXCEPT
                                           !.features = "empty"])
                 /\ chkpc' = "finally"
            ELSE /\ chk_call' = [chk_call EXCEPT !.features = "built"]
                 /\ chkpc' = "predict"
    /\ UNCHANGED <<chk_now, last_trade_check_time, chk_trade, chk_model,
                   chk_cycle, chk_refreshes, chk_processing, otherthanchk>>

\* y_pred = self.predict(x)
ChkPredict ==
    /\ chkpc = "predict"
    /\ chk_call' = [chk_call EXCEPT !.predicted = TRUE]
    /\ chkpc' = "check_cur_trade"
    /\ UNCHANGED <<chk_now, last_trade_check_time, chk_trade, chk_model,
                   chk_cycle, chk_refreshes, chk_processing, otherthanchk>>

\* check_cur_trade: if not self.broker.cur_trade: return; the clock is read
\* for the test of the interval.
ChkCheckCurTrade ==
    /\ chkpc = "check_cur_trade"
    /\ chk_call' = ChkSeen([chk_call EXCEPT !.check_called = TRUE,
                                            !.processed =
                                               ~CheckCalls(chk_trade, chk_now,
                                                     last_trade_check_time)])
    /\ chkpc' = IF CheckCalls(chk_trade, chk_now, last_trade_check_time)
                   THEN "update_cur_trade_status"
                   ELSE "process_prediction"
    /\ UNCHANGED <<chk_now, last_trade_check_time, chk_trade, chk_model,
                   chk_cycle, chk_refreshes, chk_processing, otherthanchk>>

\* check_cur_trade, line 169: self.broker.update_cur_trade_status() is
\* called and returns; the broker may have found the trade closed.
ChkUpdateCurTradeStatus ==
    /\ chkpc = "update_cur_trade_status"
    /\ \E closed \in BOOLEAN :
         chk_trade' = IF closed THEN FALSE ELSE chk_trade
    /\ chk_refreshes' = Refreshed(chk_refreshes, chk_now)
    /\ chk_call' = [chk_call EXCEPT !.refreshed = TRUE]
    /\ chkpc' = "stamp"
    /\ UNCHANGED <<chk_now, last_trade_check_time, chk_model, chk_cycle,
                   chk_processing, otherthanchk>>

\* check_cur_trade, line 170: self.last_trade_check_time =
\* datetime.utcnow(), the clock read again after the broker's call has
\* returned.
ChkStamp ==
    /\ chkpc = "stamp"
    /\ last_trade_check_time' = chk_now
    /\ chk_call' = [chk_call EXCEPT !.processed = TRUE,
                                    !.last_after = chk_now]
    /\ chkpc' = "process_prediction"
    /\ UNCHANGED <<chk_now, chk_trade, chk_model, chk_cycle, chk_refreshes,
                   chk_processing, otherthanchk>>

\* self.process_prediction(y_pred)
ChkProcessPrediction ==
    /\ chkpc = "process_prediction"
    /\ chkpc' = "save_last_data"
    /\ UNCHANGED <<chk_now, last_trade_check_time, chk_trade, chk_model,
                   chk_cycle, chk_refreshes, chk_processing, chk_call,
                   otherthanchk>>

\* self.data_persister.save_last_data(self.ticker, {'y_pred': y_pred})
ChkSaveLastData ==
    /\ chkpc = "save_last_data"
    /\ chk_call' = [chk_call EXCEPT !.saved = TRUE]
    /\ chkpc' = "finally"
    /\ UNCHANGED <<chk_now, last_trade_check_time, chk_trade, chk_model,
                   chk_cycle, chk_refreshes, chk_processing, otherthanchk>>

\* The call the cycle has reached raises: except Exception logs it. When
\* it is update_cur_trade_status (line 169) the broker has been called and
\* line 170 is skipped.
ChkRaise ==
    /\ chkpc \in ChkRaises
    /\ chk_call' = IF chkpc \in {"prepare_last_x", "predict"}
                      THEN ChkSeen([chk_call EXCEPT !.raised = chkpc])
                   ELSE IF chkpc = "update_cur_trade_status"
                      THEN [chk_call EXCEPT !.raised = chkpc,
                                            !.refreshed = TRUE]
                   ELSE [chk_call EXCEPT !.raised = chkpc]
    /\ chk_refreshes' = IF chkpc = "update_cur_trade_status"
                           THEN Refreshed(chk_refreshes, chk_now)
                           ELSE chk_refreshes
    /\ chkpc' = "finally"
    /\ UNCHANGED <<chk_now, last_trade_check_time, chk_trade, chk_model,
                   chk_cycle, chk_processing, otherthanchk>>

\* finally: self.is_processing = False; the call is over.
ChkFinally ==
    /\ chkpc = "finally"
    /\ chk_processing' = FALSE
    /\ chk_cycle' = chk_call
    /\ chk_call' = NoChkCycle
    /\ chkpc' = "idle"
    /\ UNCHANGED <<chk_now, last_trade_check_time, chk_trade, chk_model,
                   chk_refreshes, otherthanchk>>

\* Time passes: between cycles (the sleep of processing_loop, the wait for
\* data) and while a call of the cycle runs.
ChkTick ==
    /\ chk_now + ChkStep <= MaxChkTime
    /\ chk_now' = chk_now + ChkStep
    /\ UNCHANGED <<last_trade_check_time, chk_trade, chk_model, chk_cycle,
                   chk_refreshes, chkpc, chk_processing, chk_call,
                   otherthanchk>>

\* learn() has set self.model.
ChkModelLoaded ==
    /\ ~chk_model
    /\ chk_model' = TRUE
    /\ UNCHANGED <<chk_now, last_trade_check_time, chk_trade, chk_cycle,
                   chk_refreshes, chkpc, chk_processing, chk_call,
                   otherthanchk>>

\* The broker has a current trade (opened now, or found at start-up), or
\* drops it on an order update.
ChkBrokerTrade ==
    /\ chk_trade' = ~chk_trade
    /\ UNCHANGED <<chk_now, last_trade_check_time, chk_model, chk_cycle,
                   chk_refreshes, chkpc, chk_processing, chk_call,
                   otherthanchk>>

ChkNext ==
    \/ ChkApplyBuffers
    \/ ChkGuard
    \/ ChkPrepareLastX
    \/ ChkPredict
    \/ ChkCheckCurTrade
    \/ ChkUpdateCurTradeStatus
    \/ ChkStamp
    \/ ChkProcessPrediction
    \/ ChkSaveLastData
    \/ ChkRaise
    \/ ChkFinally
    \/ ChkTick
    \/ ChkModelLoaded
    \/ ChkBrokerTrade

\* __init__: last_trade_check_time = utcnow() - trade_check_interval.
ChkInit ==
    /\ chk_now = 0
    /\ last_trade_check_time = 0 - TradeCheckInterval
    /\ chk_trade \in BOOLEAN
    /\ chk_model = FALSE
    /\ chk_cycle = NoChkCycle
    /\ chk_refreshes = <<>>
    /\ chkpc = "idle"
    /\ chk_processing = FALSE
    /\ chk_call = NoChkCycle

\* This part when a specification does not run it.
ChkOff ==
    /\ chk_now = -1
    /\ last_trade_check_time = 0
    /\ chk_trade = FALSE
    /\ chk_model = FALSE
    /\ chk_cycle = NoChkCycle
    /\ chk_refreshes = <<>>
    /\ chkpc = "off"
    /\ chk_processing = FALSE
    /\ chk_call = NoChkCycle

(***************************************************************************)
(* StrategyBase.is_alive over the configured feeds.                        *)
(***************************************************************************)
FeedNames == {"candles_feed", "bid_ask_feed", "level2_feed"}

\* feed.is_alive(maxdelta) of a feed whose last data is `age` old.
FeedAliveAt(age, maxdelta) == age < maxdelta

\* Faulty variant: one live feed is enough.
StrategyIsAlive_Any(feeds, age) ==
    \E f \in feeds : FeedAliveAt(age[f], MaxDelta)

\* all([feed.is_alive(maxdelta) for feed in feeds]), feeds being the
\* configured ones.
StrategyIsAlive(feeds, age) ==
    \A f \in feeds : FeedAliveAt(age[f], MaxDelta)

\* self.is_alive() is called.
AlIsAlive ==
    /\ al_result' = IF StrategyIsAlive(al_feeds, al_age) THEN "alive"
                     ELSE "dead"
    /\ al_seen' = al_age
    /\ UNCHANGED <<al_feeds, al_age, otherthanal>>

\* A feed receives data.
AlFeedData ==
    /\ \E f \in FeedNames : al_age' = [al_age EXCEPT ![f] = 0]
    /\ UNCHANGED <<al_feeds, al_result, al_seen, otherthanal>>

\* A minute passes without data.
AlTick ==
    /\ \E f \in FeedNames : al_age[f] < MaxAge
    /\ al_age' = [f \in FeedNames |->
                    IF al_age[f] < MaxAge THEN al_age[f] + 1 ELSE al_age[f]]
    /\ UNCHANGED <<al_feeds, al_result, al_seen, otherthanal>>

AlNext ==
    \/ AlIsAlive
    \/ AlFeedData
    \/ AlTick

\* __init__: each of the three feeds is created or left None.
AlInit ==
    /\ al_feeds \in SUBSET FeedNames
    /\ al_age = [f \in FeedNames |-> 0]
    /\ al_result = "none"
    /\ al_seen = [f \in FeedNames |-> 0]

\* This part when a specification does not run it.
AlOff ==
    /\ al_feeds = {}
    /\ al_age = [f \in FeedNames |-> 0]
    /\ al_result = "off"
    /\ al_seen = [f \in FeedNames |-> 0]

(***************************************************************************)
(* Initial states and specifications.                                      *)
(***************************************************************************)
\* After StrategyBase.__init__ and the start of run(): candles were read by
\* read_candles(), the loop thread is started, learn() is about to be called.
LoopInit ==
    /\ mainpc = "is_alive"
    /\ new_data_event = FALSE
    /\ data_lock = "none"
    /\ is_processing = FALSE
    /\ model = FALSE
    /\ model_fitted = FALSE
    /\ last_exc = "none"
    /\ exit_called = FALSE
    /\ feedpc = "idle"
    /\ feed_age = 0
    /\ next_item = 1
    /\ feed_buf = {}
    /\ feed_data = {}
    /\ commit_count = [i \in Items |-> 0]
    /\ learnpc = "apply_buffers"
    /\ learn_interval \in {NoInterval, 0, 1}
    /\ timers = 0
    /\ learn_result = "running"
    /\ learn_escaped = FALSE

GateInit ==
    /\ strategy \in Strategies
    /\ now = 0
    /\ cur_trade = NoTrade
    /\ last_loss = -1
    /\ cycle = NoCycle
    /\ gatepc = "idle"
    /\ gate_call = NoCycle

\* The loop part when a specification does not run it.
LoopOff ==
    /\ mainpc = "off"
    /\ new_data_event = FALSE
    /\ data_lock = "none"
    /\ is_processing = FALSE
    /\ model = FALSE
    /\ model_fitted = FALSE
    /\ last_exc = "none"
    /\ exit_called = FALSE
    /\ feedpc = "off"
    /\ feed_age = 0
    /\ next_item = 1
    /\ feed_buf = {}
    /\ feed_data = {}
    /\ commit_count = [i \in Items |-> 0]
    /\ learnpc = "off"
    /\ learn_interval = NoInterval
    /\ timers = 0
    /\ learn_result = "none"
    /\ learn_escaped = FALSE

GateOff ==
    /\ strategy = "off"
    /\ now = 0
    /\ cur_trade = NoTrade
    /\ last_loss = -1
    /\ cycle = NoCycle
    /\ gatepc = "idle"
    /\ gate_call = NoCycle

PlhOff ==
    /\ plhpc = [t \in Callbacks |-> "off"]
    /\ is_learning = FALSE
    /\ plh_processing = FALSE
    /\ plh_model = FALSE
    /\ plh_exc = [t \in Callbacks |-> FALSE]
    /\ plh_feeds = {}
    /\ plh_span = 0

(***************************************************************************)
(* LongCandleStrategyBase.get_sl_tp_trdelta and process_signal.            *)
(***************************************************************************)

SlPrices == 1..MaxSlPrice

\* Last candles of the target period: low <= high.
SlCandles == {c \in [low : SlPrices, high : SlPrices] : c.low <= c.high}

\* y_pred_trans[-1][0]: buy, sell, nothing, or a value that is none of them.
SlSignals == {-1, 0, 1, 2}

\* return None
NoSlTp == [ok |-> FALSE, sl |-> 0, tp |-> 0, td |-> 0]

\* Faulty variant: a sell gets the levels of a buy.
GetSlTpTrdelta_SellAsBuy(signal, last_candle) ==
    LET td == last_candle.high - last_candle.low
    IN  IF signal = 1 \/ signal = -1
           THEN [ok |-> TRUE, sl |-> last_candle.low,
                 tp |-> last_candle.high, td |-> td]
           ELSE NoSlTp

\* get_sl_tp_trdelta(signal) on the last candle of the target period.
GetSlTpTrdelta(signal, last_candle) ==
    LET td == last_candle.high - last_candle.low
    IN  IF signal = 1
           THEN [ok |-> TRUE, sl |-> last_candle.low,
                 tp |-> last_candle.high, td |-> td]
           ELSE IF signal = -1
                   THEN [ok |-> TRUE, sl |-> last_candle.high,
                         tp |-> last_candle.low, td |-> td]
                   ELSE NoSlTp

NoSlCall == [signal |-> 0, outcome |-> "none", low |-> 0, high |-> 0,
             direction |-> 0, stop_loss_price |-> 0,
             take_profit_price |-> 0, trailing_delta |-> 0]

\* if not signal: return
SlSkips(signal) == signal = 0

\* process_signal(signal): nothing on a zero signal; unpacking None raises
\* before the broker is called; else broker.create_cur_trade with the levels.
ProcessSignal ==
    \E signal \in SlSignals :
        LET r == GetSlTpTrdelta(signal, sl_candle)
            base == [NoSlCall EXCEPT !.signal = signal, !.low = sl_candle.low,
                                     !.high = sl_candle.high]
        IN  /\ sl_call' =
                  IF SlSkips(signal)
                     THEN [base EXCEPT !.outcome = "returned"]
                     ELSE IF ~r.ok
                             THEN [base EXCEPT !.outcome = "raised"]
                             ELSE [base EXCEPT
                                     !.outcome = "create_cur_trade",
                                     !.direction = signal,
                                     !.stop_loss_price = r.sl,
                                     !.take_profit_price = r.tp,
                                     !.trailing_delta = r.td]
            /\ UNCHANGED sl_candle
            /\ UNCHANGED otherthansl

\* read_candles: a new last candle of the target period.
SlNewCandle ==
    /\ \E c \in SlCandles : c # sl_candle /\ sl_candle' = c
    /\ UNCHANGED sl_call
    /\ UNCHANGED otherthansl

SlNext ==
    \/ ProcessSignal
    \/ SlNewCandle

SlInit ==
    /\ sl_candle \in SlCandles
    /\ sl_call = NoSlCall

SlOff ==
    /\ sl_candle = [low |-> 0, high |-> 0]
    /\ sl_call = NoSlCall

(***************************************************************************)
(* The two locks: data_lock (buffers) and trade_lock (the open trade).     *)
(***************************************************************************)

\* tick: websocket callback on_price_changed; loop: processing_loop;
\* learn: learn(); feed: a feed callback that appends to a buffer.
LkThreads == {"tick", "loop", "learn", "feed"}

LkStrategies == {"StrategyBase", "LongCandleStrategyBase"}

LkGoto(t, pc) == lkpc' = [lkpc EXCEPT ![t] = pc]

\* on_price_changed reaches `with self.trade_lock:`.
LkTickCall ==
    /\ lkpc["tick"] = "idle"
    /\ LkGoto("tick", "wait_trade")
    /\ UNCHANGED <<lk_strategy, lk_data, lk_trade, lk_feed>>
    /\ UNCHANGED otherthanlk

\* with self.trade_lock: entered.
LkTickAcquire ==
    /\ lkpc["tick"] = "wait_trade"
    /\ lk_trade = "none"
    /\ lk_trade' = "tick"
    /\ LkGoto("tick", "evaluate")
    /\ UNCHANGED <<lk_strategy, lk_data, lk_feed>>
    /\ UNCHANGED otherthanlk

\* The batch is evaluated (or raised and was caught): the with block ends.
LkTickRelease ==
    /\ lkpc["tick"] = "evaluate"
    /\ lk_trade' = "none"
    /\ LkGoto("tick", "idle")
    /\ UNCHANGED <<lk_strategy, lk_data, lk_feed>>
    /\ UNCHANGED otherthanlk

\* The loop thread calls process_new_data: StrategyBase starts with
\* apply_buffers, LongCandleStrategyBase with `with self.data_lock:`.
LkLoopCall ==
    /\ lkpc["loop"] = "idle"
    /\ LkGoto("loop", "wait_data")
    /\ UNCHANGED <<lk_strategy, lk_data, lk_trade, lk_feed>>
    /\ UNCHANGED otherthanlk

LkLoopAcquireData ==
    /\ lkpc["loop"] = "wait_data"
    /\ lk_data = "none"
    /\ lk_data' = "loop"
    /\ LkGoto("loop", IF lk_strategy = "StrategyBase"
                         THEN "apply_buffers" ELSE "predict")
    /\ UNCHANGED <<lk_strategy, lk_trade, lk_feed>>
    /\ UNCHANGED otherthanlk

\* StrategyBase.apply_buffers ends: data_lock released before the cycle.
LkLoopApplied ==
    /\ lkpc["loop"] = "apply_buffers"
    /\ lk_data' = "none"
    /\ LkGoto("loop", "predict")
    /\ UNCHANGED <<lk_strategy, lk_trade, lk_feed>>
    /\ UNCHANGED otherthanlk

\* Features and prediction give the signal: a zero signal asks for no trade,
\* another one goes to broker.create_cur_trade.
LkLoopPredict ==
    /\ lkpc["loop"] = "predict"
    /\ \E signal \in Signals :
          LkGoto("loop", IF signal = 0 THEN "save" ELSE "wait_trade")
    /\ UNCHANGED <<lk_strategy, lk_data, lk_trade, lk_feed>>
    /\ UNCHANGED otherthanlk

\* broker.create_cur_trade takes the trade lock.
LkLoopAcquireTrade ==
    /\ lkpc["loop"] = "wait_trade"
    /\ lk_trade = "none"
    /\ lk_trade' = "loop"
    /\ LkGoto("loop", "create_cur_trade")
    /\ UNCHANGED <<lk_strategy, lk_data, lk_feed>>
    /\ UNCHANGED otherthanlk

LkLoopCreated ==
    /\ lkpc["loop"] = "create_cur_trade"
    /\ lk_trade' = "none"
    /\ LkGoto("loop", "save")
    /\ UNCHANGED <<lk_strategy, lk_data, lk_feed>>
    /\ UNCHANGED otherthanlk

\* The rest of the cycle; LongCandleStrategyBase leaves its with block.
LkLoopDone ==
    /\ lkpc["loop"] = "save"
    /\ lk_data' = IF lk_data = "loop" THEN "none" ELSE lk_data
    /\ LkGoto("loop", "idle")
    /\ UNCHANGED <<lk_strategy, lk_trade, lk_feed>>
    /\ UNCHANGED otherthanlk

\* learn(): apply_buffers takes self.data_lock (StrategyBase line 271), the
\* lock of the strategy as it is after construction.
LkLearnCall ==
    /\ lkpc["learn"] = "idle"
    /\ LkGoto("learn", "wait_data")
    /\ UNCHANGED <<lk_strategy, lk_data, lk_trade, lk_feed>>
    /\ UNCHANGED otherthanlk

LkLearnAcquire ==
    /\ lkpc["learn"] = "wait_data"
    /\ lk_data = "none"
    /\ lk_data' = "learn"
    /\ LkGoto("learn", "buffers")
    /\ UNCHANGED <<lk_strategy, lk_trade, lk_feed>>
    /\ UNCHANGED otherthanlk

LkLearnRelease ==
    /\ lkpc["learn"] = "buffers"
    /\ lk_data' = "none"
    /\ LkGoto("learn", "idle")
    /\ UNCHANGED <<lk_strategy, lk_trade, lk_feed>>
    /\ UNCHANGED otherthanlk

LkLearnApplyBuffers ==
    \/ LkLearnCall
    \/ LkLearnAcquire
    \/ LkLearnRelease

\* The feeds are given self.data_lock when StrategyBase.__init__ makes them
\* (lines 42-51). LongCandleStrategyBase.__init__ then sets self.data_lock to
\* a new RLock (line 42): its feeds keep the first lock, which the strategy
\* no longer takes.
FeedsShareDataLock == lk_strategy = "StrategyBase"

\* A feed callback reaches the lock it was given.
LkFeedCall ==
    /\ lkpc["feed"] = "idle"
    /\ LkGoto("feed", "wait_data")
    /\ UNCHANGED <<lk_strategy, lk_data, lk_trade, lk_feed>>
    /\ UNCHANGED otherthanlk

LkFeedAcquire ==
    /\ lkpc["feed"] = "wait_data"
    /\ IF FeedsShareDataLock
          THEN /\ lk_data = "none"
               /\ lk_data' = "feed"
               /\ lk_feed' = lk_feed
          ELSE /\ lk_feed = "none"
               /\ lk_feed' = "feed"
               /\ lk_data' = lk_data
    /\ LkGoto("feed", "buffers")
    /\ UNCHANGED <<lk_strategy, lk_trade>>
    /\ UNCHANGED otherthanlk

\* The row is appended to the buffer: the lock is released.
LkFeedRelease ==
    /\ lkpc["feed"] = "buffers"
    /\ IF FeedsShareDataLock
          THEN lk_data' = "none" /\ lk_feed' = lk_feed
          ELSE lk_feed' = "none" /\ lk_data' = lk_data
    /\ LkGoto("feed", "idle")
    /\ UNCHANGED <<lk_strategy, lk_trade>>
    /\ UNCHANGED otherthanlk

LkFeedAppend ==
    \/ LkFeedCall
    \/ LkFeedAcquire
    \/ LkFeedRelease

LkNext ==
    \/ LkTickCall
    \/ LkTickAcquire
    \/ LkTickRelease
    \/ LkLoopCall
    \/ LkLoopAcquireData
    \/ LkLoopApplied
    \/ LkLoopPredict
    \/ LkLoopAcquireTrade
    \/ LkLoopCreated
    \/ LkLoopDone
    \/ LkLearnApplyBuffers
    \/ LkFeedAppend

LkInit ==
    /\ lk_strategy \in LkStrategies
    /\ lk_data = "none"
    /\ lk_trade = "none"
    /\ lk_feed = "none"
    /\ lkpc = [t \in LkThreads |-> "idle"]

LkOff ==
    /\ lk_strategy = "none"
    /\ lk_data = "none"
    /\ lk_trade = "none"
    /\ lk_feed = "none"
    /\ lkpc = [t \in LkThreads |-> "off"]

(***************************************************************************)
(* The start of StrategyBase.processing_loop.                              *)
(***************************************************************************)

\* feed.is_alive(maxdelta): the newest data of the feed is younger than
\* maxdelta. A feed without data has no newest timestamp and does not
\* answer True (False or None: all() takes both as false).
StFeedIsAlive(has_data, age, maxdelta) == has_data /\ age < maxdelta

\* StrategyBase.is_alive(): all([...]) over the configured feeds, a bool.
StIsAlive ==
    IF \A f \in st_feeds : StFeedIsAlive(st_has_data[f], st_age[f], MaxDelta)
       THEN "true"
       ELSE "false"

\* while is_alive or is_alive is None
StLoopGuard(v) == v = "true" \/ v = "none"

\* is_alive = self.is_alive() before the loop, then the first test of the
\* while condition.
StStart ==
    /\ st_pc = "start"
    /\ st_is_alive' = StIsAlive
    /\ st_first' = [is_alive |-> StIsAlive,
                    no_data |-> {f \in st_feeds : ~st_has_data[f]}]
    /\ st_pc' = IF StLoopGuard(StIsAlive) THEN "loop" ELSE "ended"
    /\ UNCHANGED <<st_lock, st_feeds, st_has_data, st_age, st_event, st_cycles>>
    /\ UNCHANGED otherthanst

\* self.new_data_event.wait() returns once the event is set;
\* self.new_data_event.clear()
StWait ==
    /\ st_pc = "loop"
    /\ st_event
    /\ st_event' = FALSE
    /\ st_pc' = "process"
    /\ UNCHANGED <<st_lock, st_feeds, st_has_data, st_age, st_is_alive, st_first,
                   st_cycles>>
    /\ UNCHANGED otherthanst

\* self.process_new_data() is called: apply_buffers reaches
\* `with (self.data_lock):` (line 271) and enters when the lock is free.
StProcessNewData ==
    /\ st_pc = "process"
    /\ st_lock = "none"
    /\ st_lock' = "loop"
    /\ st_pc' = "apply_buffers"
    /\ UNCHANGED <<st_feeds, st_has_data, st_age, st_event, st_is_alive,
                   st_first, st_cycles>>
    /\ UNCHANGED otherthanst

\* apply_buffers, lines 272-286: the buffers are applied and saved and the
\* lock is released; what is raised there is outside the try block of
\* process_new_data and reaches processing_loop: except Exception logs,
\* "Exiting", exit(1).
StApplyBuffers ==
    /\ st_pc = "apply_buffers"
    /\ st_lock' = "none"
    /\ \E raises \in BOOLEAN :
          st_pc' = IF raises THEN "exited" ELSE "guard"
    /\ UNCHANGED <<st_feeds, st_has_data, st_age, st_event, st_is_alive,
                   st_first, st_cycles>>
    /\ UNCHANGED otherthanst

\* process_new_data, line 291: if self.model and not self.is_processing;
\* otherwise the call is over.
StGuard ==
    /\ st_pc = "guard"
    /\ \E runs \in BOOLEAN :
          st_pc' = IF runs THEN "cycle" ELSE "sleep"
    /\ UNCHANGED <<st_lock, st_feeds, st_has_data, st_age, st_event,
                   st_is_alive, st_first, st_cycles>>
    /\ UNCHANGED otherthanst

\* process_new_data, lines 292-313: the cycle inside the try block ends;
\* what it raises is caught and logged there (line 310).
StCycle ==
    /\ st_pc = "cycle"
    /\ st_pc' = "sleep"
    /\ UNCHANGED <<st_lock, st_feeds, st_has_data, st_age, st_event,
                   st_is_alive, st_first, st_cycles>>
    /\ UNCHANGED otherthanst

\* time.sleep(self.processing_interval.total_seconds()) is over.
StSleep ==
    /\ st_pc = "sleep"
    /\ st_pc' = "refresh"
    /\ UNCHANGED <<st_lock, st_feeds, st_has_data, st_age, st_event, st_is_alive,
                   st_first, st_cycles>>
    /\ UNCHANGED otherthanst

\* is_alive = self.is_alive() at the end of the loop body, then the test of
\* the while condition.
StRefresh ==
    /\ st_pc = "refresh"
    /\ st_cycles' = IF st_cycles < MaxCycles THEN st_cycles + 1 ELSE st_cycles
    /\ st_is_alive' = StIsAlive
    /\ st_pc' = IF StLoopGuard(StIsAlive) THEN "loop" ELSE "ended"
    /\ UNCHANGED <<st_lock, st_feeds, st_has_data, st_age, st_event, st_first>>
    /\ UNCHANGED otherthanst

\* A feed receives data, appends it to its buffer under the data lock and
\* sets new_data_event.
StFeedData ==
    /\ st_lock = "none"
    /\ \E f \in st_feeds :
          /\ st_has_data' = [st_has_data EXCEPT ![f] = TRUE]
          /\ st_age' = [st_age EXCEPT ![f] = 0]
    /\ st_event' = TRUE
    /\ UNCHANGED <<st_lock, st_feeds, st_pc, st_is_alive, st_first, st_cycles>>
    /\ UNCHANGED otherthanst

\* A minute passes.
StTick ==
    /\ \E f \in st_feeds : st_has_data[f] /\ st_age[f] < MaxAge
    /\ st_age' = [f \in FeedNames |->
                    IF st_has_data[f] /\ st_age[f] < MaxAge
                       THEN st_age[f] + 1 ELSE st_age[f]]
    /\ UNCHANGED <<st_lock, st_feeds, st_has_data, st_pc, st_event, st_is_alive,
                   st_first, st_cycles>>
    /\ UNCHANGED otherthanst

StNext ==
    \/ StStart
    \/ StWait
    \/ StProcessNewData
    \/ StApplyBuffers
    \/ StGuard
    \/ StCycle
    \/ StSleep
    \/ StRefresh
    \/ StFeedData
    \/ StTick

NoStFirst == [is_alive |-> "unset", no_data |-> {}]

\* __init__ creates the configured feeds; none has data yet.
StInit ==
    /\ st_feeds \in SUBSET FeedNames
    /\ st_has_data = [f \in FeedNames |-> FALSE]
    /\ st_age = [f \in FeedNames |-> 0]
    /\ st_pc = "start"
    /\ st_lock = "none"
    /\ st_event = FALSE
    /\ st_is_alive = "unset"
    /\ st_first = NoStFirst
    /\ st_cycles = 0

StOff ==
    /\ st_feeds = {}
    /\ st_has_data = [f \in FeedNames |-> FALSE]
    /\ st_age = [f \in FeedNames |-> 0]
    /\ st_pc = "off"
    /\ st_lock = "none"
    /\ st_event = FALSE
    /\ st_is_alive = "unset"
    /\ st_first = NoStFirst
    /\ st_cycles = 0

SideOff == SlOff /\ LkOff /\ StOff

\* StrategyBase: loop thread, feed thread, learn chain, clock.
Init == LoopInit /\ GateOff /\ PlhOff /\ TssOff /\ L2Off /\ UcOff
    /\ ChkOff /\ AlOff /\ SideOff

Next ==
    \/ MainNext
    \/ LearnNext
    \/ FeedNext
    \/ Tick

Spec == Init /\ [][Next]_vars

\* The same with the scheduling the threads get: every thread that can take
\* a step eventually takes it, and the clock goes on; the feed may fall
\* silent at any time (no fairness on FeedAppend).
FairSpec ==
    /\ Spec
    /\ WF_vars(MainNext)
    /\ WF_vars(LearnNext)
    /\ WF_vars(FeedSet)
    /\ WF_vars(Tick)

\* The trade gate of the three strategies.
GateSpecInit == LoopOff /\ GateInit /\ PlhOff /\ TssOff /\ L2Off /\ UcOff
    /\ ChkOff /\ AlOff /\ SideOff

GateSpec == GateSpecInit /\ [][GateNext]_vars

\* PredictLowHighStrategy with its two callback threads.
PlhSpecInit == LoopOff /\ GateOff /\ PlhInit /\ TssOff /\ L2Off /\ UcOff
    /\ ChkOff /\ AlOff /\ SideOff

PlhSpec == PlhSpecInit /\ [][PlhNext]_vars

\* TrailingStopSupport.on_price_changed with the exchange and the broker.
TssSpecInit == LoopOff /\ GateOff /\ PlhOff /\ TssInit /\ L2Off /\ UcOff
    /\ ChkOff /\ AlOff /\ SideOff

TssSpec == TssSpecInit /\ [][TssNext]_vars

\* The level2 feed under apply_buffers.
L2SpecInit == LoopOff /\ GateOff /\ PlhOff /\ TssOff /\ L2Init /\ UcOff
    /\ ChkOff /\ AlOff /\ SideOff

L2Spec == L2SpecInit /\ [][L2Next]_vars

\* update_unchecked with the candles of the target period arriving.
UcSpecInit == LoopOff /\ GateOff /\ PlhOff /\ TssOff /\ L2Off /\ UcInit
    /\ ChkOff /\ AlOff /\ SideOff

UcSpec == UcSpecInit /\ [][UcNext]_vars

\* process_new_data cycles with the trade-status check.
ChkSpecInit == LoopOff /\ GateOff /\ PlhOff /\ TssOff /\ L2Off /\ UcOff
    /\ ChkInit /\ AlOff /\ SideOff

ChkSpec == ChkSpecInit /\ [][ChkNext]_vars

\* is_alive over the configured feeds.
AlSpecInit == LoopOff /\ GateOff /\ PlhOff /\ TssOff /\ L2Off /\ UcOff
    /\ ChkOff /\ AlInit /\ SideOff

AlSpec == AlSpecInit /\ [][AlNext]_vars

\* process_signal on the last candle of the target period.
SlSpecInit == LoopOff /\ GateOff /\ PlhOff /\ TssOff /\ L2Off /\ UcOff
    /\ ChkOff /\ AlOff /\ SlInit /\ LkOff /\ StOff

SlSpec == SlSpecInit /\ [][SlNext]_vars

\* The threads that take data_lock and trade_lock.
LkSpecInit == LoopOff /\ GateOff /\ PlhOff /\ TssOff /\ L2Off /\ UcOff
    /\ ChkOff /\ AlOff /\ SlOff /\ LkInit /\ StOff

LkSpec == LkSpecInit /\ [][LkNext]_vars

\* The start of the processing loop with the feeds.
StSpecInit == LoopOff /\ GateOff /\ PlhOff /\ TssOff /\ L2Off /\ UcOff
    /\ ChkOff /\ AlOff /\ SlOff /\ LkOff /\ StInit

StSpec == StSpecInit /\ [][StNext]_vars

(***************************************************************************)
(* Properties.                                                             *)
(***************************************************************************)

\* C1 (GateSpec): single open trade -- a non-zero signal produced while
\* broker.cur_trade exists never results in a create_cur_trade request, in
\* any of the three signal-to-trade paths.
C1_NoCreateWhileTradeOpen ==
    ~(cycle.requested /\ cycle.had_trade)

\* C2 (GateSpec): in LgbLowHighRegressionStrategy.process_prediction a trade
\* creation is requested if and only if can_trade() answered true (line
\* 103), cur_trade was None (line 108) and the signal is non-zero.
C2_GateIff ==
    strategy = "LgbLowHighRegressionStrategy" =>
        (cycle.requested <=>
            (cycle.can_trade /\ ~cycle.had_trade /\ cycle.signal # 0))

\* C2 witness: a call made after a loss whose cooldown had elapsed, with no
\* trade in the market, requested the trade and recorded it as created.
C2_Witness ==
    /\ strategy = "LgbLowHighRegressionStrategy"
    /\ cycle.requested
    /\ cycle.can_trade
    /\ ~cycle.had_trade
    /\ cycle.status = "order_created"
    /\ cycle.loss_at # -1

\* C3 as stated (Spec): no exception raised during a processing cycle, from
\* apply_buffers on, ever terminates the processing loop.
C3_AnyExceptionCaught ==
    last_exc # "none" => mainpc \notin {"except", "exited"}

\* C3 amended (Spec): an exception raised by prepare_last_x, predict,
\* check_cur_trade, process_prediction or the final save is caught inside
\* process_new_data, is_processing is reset and the loop goes on; only an
\* exception of apply_buffers reaches the loop's handler, which calls
\* exit(1) and ends the loop.
C3_CycleExceptionCaught ==
    /\ last_exc \in CycleSteps =>
         /\ mainpc \in {"finally", "sleep", "is_alive", "wait", "clear",
                        "ended"}
         /\ mainpc # "finally" => ~is_processing
    /\ mainpc \in {"except", "exited"} => last_exc = "apply_buffers"
    /\ exit_called <=> mainpc = "exited"

\* C3 witness: process_prediction raised and the loop is waiting for the
\* data of the next cycle.
C3_Witness ==
    /\ last_exc = "process_prediction"
    /\ mainpc = "wait"
    /\ ~is_processing

\* C4 (Spec): when is_alive() is false in the processing loop the process
\* is terminated by an explicit exit: the learn timer chain does not go on.
C4_LivenessFailureExits ==
    mainpc = "ended" =>
        /\ exit_called
        /\ learnpc = "idle"
        /\ timers = 0

\* C5 (FairSpec): once the feed has produced no data for
\* history_min_window + 60s, the loop eventually evaluates is_alive() as
\* false and ends, also when the feed stays silent.
C5_Watchdog ==
    (feed_age >= MaxDelta) ~> (mainpc \in {"ended", "except", "exited"})

\* The processing loop has ended (is_alive() false, or exit(1)).
LoopOver == mainpc \in {"ended", "except", "exited"}

\* C6 (FairSpec): no market item is lost or duplicated by the wake-up
\* protocol: no item is committed twice, an item is in the main data set
\* only through a commit, an item leaves the buffer only by being committed,
\* and a non-empty buffer is committed later unless the loop has ended.
C6_NoLossNoDuplicate ==
    /\ [](\A i \in Items : /\ commit_count[i] <= 1
                           /\ i \in feed_data <=> commit_count[i] = 1
                           /\ i \in feed_buf => commit_count[i] = 0
                           /\ i < next_item => i \in feed_buf \cup feed_data)
    /\ (feed_buf # {}) ~> (feed_buf = {} \/ LoopOver)

\* C6 witness: the last item arrived while the loop was busy with an
\* earlier one, and both are committed, once each, with the loop waiting.
C6_Witness ==
    /\ feed_data = Items
    /\ \A i \in Items : commit_count[i] = 1
    /\ mainpc = "wait"
    /\ ~new_data_event
    /\ learnpc = "idle"
    /\ learn_interval = NoInterval

\* C8 as stated (Spec): after every learn run exactly one future learn run
\* is pending, whatever the configuration.
C8_AlwaysRescheduled ==
    learnpc = "idle" => timers = 1

\* C8 amended (Spec): when learn_interval is configured and non-zero, after
\* every learn run (completed, can_learn() false, too little data, or an
\* exception) exactly one learn timer is pending, and none while a run is
\* in progress; when learn_interval is absent or zero no timer is started.
C8_RescheduledIfInterval ==
    /\ Truthy(learn_interval) =>
         timers = (IF learnpc = "idle" THEN 1 ELSE 0)
    /\ ~Truthy(learn_interval) => timers = 0

\* C8 witness: a learn run ended by an exception and the next timer is
\* pending.
C8_Witness ==
    /\ learnpc = "idle"
    /\ learn_result = "exception"
    /\ learn_interval = 1
    /\ timers = 1

\* C9 as stated (Spec): an exception raised inside learn() never reaches
\* the caller of learn().
C9_ExceptionCaught ==
    ~learn_escaped

\* C9 amended (Spec): learn() has no except clause: an exception raised
\* inside it reaches the caller of learn(), after the finally clause has
\* started the next timer (when learn_interval is set).
C9_ExceptionPropagates ==
    (learnpc = "idle" /\ learn_result = "exception") =>
        /\ learn_escaped
        /\ Truthy(learn_interval) => timers = 1

\* C9 witness: model.fit raised in a timer-started run (a model exists but
\* was never fitted), the exception left learn() and the timer is pending.
C9_Witness ==
    /\ learnpc = "idle"
    /\ learn_result = "exception"
    /\ learn_escaped
    /\ model /\ ~model_fitted
    /\ timers = 1

\* C10 (Spec): no apply_buffers() of the other thread runs while
\* prepare_last_x (loop) or prepare_xy (learn) reads the committed data.
C10_NoApplyDuringRead ==
    /\ ~(mainpc = "prepare_last_x" /\ learnpc = "apply_save")
    /\ ~(learnpc = "prepare_xy" /\ mainpc = "apply_save")

\* C7 (PlhSpec): at most one learn() run is in progress at any time.
C7_LearnMutex ==
    Cardinality({t \in Callbacks : plhpc[t] \in InLearn}) <= 1

\* C11 (TssSpec): on_price_changed initiates closure only for a tick whose
\* price has crossed take-profit in the open trade's direction -- price >=
\* take-profit for a long trade, price <= take-profit for a short one; any
\* other tick never causes a cancel or a closing order.
C11_OnlyOnCrossing ==
    tsspc \in {"cancel", "close"} =>
        \/ tss_trade.dir = 1 /\ tss_batch[tss_idx].price >= TakeProfit
        \/ tss_trade.dir = -1 /\ tss_batch[tss_idx].price <= TakeProfit

\* C12 (TssSpec): update_cur_trade_status() comes before any cancel_order /
\* create_closing_order, and once a re-fetch of the call has found the trade
\* absent or not opened, the call cancels nothing, submits no closing order
\* and lets no error escape.
C12_StaleNoOrders ==
    /\ \A k \in DOMAIN tss_log :
         tss_log[k] \in {"cancel", "cancel_error"} =>
             k > 1 /\ tss_log[k - 1] = "update"
    /\ tss_stale =>
         /\ tsspc \notin {"cancel", "close"}
         /\ \A k \in DOMAIN tss_log :
              tss_log[k] \notin {"cancel", "cancel_error",
                                 "close", "close_error"}
         /\ ~tss_escaped

\* C12 witness: the re-fetch dropped the trade, the next tick's comparison
\* raised on the missing trade, and the call ended in its except clause.
C12_Witness ==
    /\ tss_stale
    /\ tsspc = "idle"
    /\ tss_last = "raised"
    /\ tss_log = <<"update", "attribute_error">>

\* C13 (TssSpec): one call of on_price_changed issues at most one cancel and
\* at most one closing order, and after the tick that led to them no further
\* tick of the batch is evaluated.
C13_OneInitiation ==
    /\ Cardinality({k \in DOMAIN tss_log :
                      tss_log[k] \in {"cancel", "cancel_error"}}) <= 1
    /\ Cardinality({k \in DOMAIN tss_log :
                      tss_log[k] \in {"close", "close_error"}}) <= 1
    /\ (tsspc = "idle" /\ tss_last = "initiated") =>
         /\ tss_idx <= Len(tss_batch)
         /\ IsTp(tss_batch[tss_idx])
         /\ tss_log[Len(tss_log)] = "close"

\* C13 witness: the first tick led to the closing order and a later
\* qualifying tick of the same batch was left unevaluated.
C13_Witness ==
    /\ tsspc = "idle"
    /\ tss_last = "initiated"
    /\ tss_idx < Len(tss_batch)
    /\ IsTp(tss_batch[Len(tss_batch)])

\* C14 (TssSpec): the stop-loss order is cancelled first and the closing
\* order comes right after a successful cancel; it is never submitted before
\* the cancel, nor after a cancel_order that raised.
C14_CancelBeforeClose ==
    /\ \A k \in DOMAIN tss_log :
         tss_log[k] \in {"close", "close_error"} =>
             k > 1 /\ tss_log[k - 1] = "cancel"
    /\ tsspc = "close" =>
         tss_log # <<>> /\ tss_log[Len(tss_log)] = "cancel"

\* C14 witness: cancel_order raised and the call ended without a closing
\* order.
C14_Witness ==
    /\ tsspc = "idle"
    /\ tss_last = "raised"
    /\ tss_log # <<>>
    /\ tss_log[Len(tss_log)] = "cancel_error"

\* C15 (TssSpec): on_price_changed itself never changes cur_trade -- neither
\* its status nor the reference; only update_cur_trade_status and the
\* broker's order update do, and the trade is opened when the cancel and the
\* closing order are issued.
C15_StatusOnlyFromBroker ==
    /\ [](tsspc \in {"cancel", "close"} => TssOpened(tss_trade))
    /\ [][(/\ <<tsspc, tss_idx, tss_log, tss_batch, tss_last>>'
                 # <<tsspc, tss_idx, tss_log, tss_batch, tss_last>>
           /\ tsspc # "update")
          => tss_trade' = tss_trade]_vars

\* C15 witness: a closing order has been submitted and the trade is still
\* referenced and opened.
C15_Witness ==
    /\ tsspc = "idle"
    /\ tss_last = "initiated"
    /\ tss_trade.status = "opened"
    /\ ~exch_closed

\* C16 (TssSpec): called with no trade or with a trade that is not opened,
\* on_price_changed is a no-op: no lock, no re-fetch, no cancel, no closing
\* order, cur_trade unchanged.
C16_NoopWithoutOpenTrade ==
    /\ [](tss_last = "noop" =>
            tsspc = "idle" /\ tss_log = <<>> /\ trade_lock # "tss")
    /\ [][(tsspc = "idle" /\ ~TssOpened(tss_trade)
           /\ tss_batch' # tss_batch)
          => /\ tss_trade' = tss_trade
             /\ trade_lock' = trade_lock
             /\ trade_lock' # "tss"
             /\ tsspc' = "idle"
             /\ tss_log' = <<>>
             /\ tss_last' = "noop"]_vars

\* C16 witness: a call found a closed trade and returned at once.
C16_Witness ==
    /\ tss_last = "noop"
    /\ tss_trade.status = "closed"
    /\ tss_batch # <<>>

\* C17 (L2Spec), as claimed: after an apply level2 holds exactly the rows
\* with datetime >= newest - level2_history_period.
C17_KeepsWithinW ==
    (l2_last = "apply" /\ l2_before # <<>>) =>
        level2 = SelectSeq(l2_before,
                           LAMBDA ts : ts >= SeqMax(l2_before)
                                             - level2_history_period)

\* C17 (L2Spec), amended: after an apply level2 holds exactly the rows with
\* datetime > newest - level2_history_period, newest being the largest
\* datetime of level2 and the buffer together; when every row is younger
\* than the period nothing is purged.
C17_KeepsYoungerThanW ==
    l2_last = "apply" =>
        /\ l2_before = <<>> => level2 = <<>>
        /\ l2_before # <<>> =>
             /\ level2 = SelectSeq(l2_before,
                                   LAMBDA ts : ts > SeqMax(l2_before)
                                                    - level2_history_period)
             /\ (\A i \in DOMAIN l2_before :
                    SeqMax(l2_before) - l2_before[i] < level2_history_period)
                => level2 = l2_before

\* C17 witness: an apply over rows committed earlier and buffered rows
\* purged some rows and kept others.
C17_Witness ==
    /\ l2_last = "apply"
    /\ level2 # <<>>
    /\ Len(level2) < Len(l2_before)
    /\ l2_before # TestLevel2Buf

\* C18 (L2Spec): the purge is relative to the newest datetime of the data,
\* not to the wall clock, and the row exactly one period older than the
\* newest is dropped: 00:10:00, 00:10:01, 00:11:00 with one minute leave
\* 00:10:01, 00:11:00 in that order.
C18_BoundaryRowDropped ==
    l2_last = "apply" =>
        /\ l2_before # <<>> =>
             \A i \in DOMAIN level2 :
                 level2[i] # SeqMax(l2_before) - level2_history_period
        /\ (l2_before # <<>> /\ level2_history_period > 0) =>
             \E i \in DOMAIN level2 : level2[i] = SeqMax(l2_before)
        /\ (l2_before = TestLevel2Buf /\ level2_history_period = Minute) =>
             level2 = <<10 * Minute + 1, 11 * Minute>>

\* C18 witness: test_on_level2_should_purge_old after update_level2.
C18_Witness ==
    /\ l2_last = "apply"
    /\ l2_before = TestLevel2Buf
    /\ level2_history_period = Minute
    /\ l2_clock > 11 * Minute + Minute
    /\ level2 = <<10 * Minute + 1, 11 * Minute>>

\* C19 (L2Spec): with a retention of zero an apply leaves level2 empty.
C19_ZeroRetentionKeepsNothing ==
    (l2_last = "apply" /\ level2_history_period = 0) => level2 = <<>>

\* C19 witness: test_on_level2_purge_all after update_level2.
C19_Witness ==
    /\ l2_last = "apply"
    /\ level2_history_period = 0
    /\ l2_before = TestLevel2Buf
    /\ level2 = <<>>

\* C20 (L2Spec): the buffer is empty after every apply and is emptied by
\* nothing else; level2 changes only in an apply, never in an append.
C20_BufferResetOnlyByApply ==
    /\ [](l2_last = "apply" => level2_buf = <<>>)
    /\ [][/\ level2' # level2 => l2_last' = "apply"
          /\ (level2_buf # <<>> /\ level2_buf' = <<>>) => l2_last' = "apply"
          /\ l2_last' = "append" =>
               /\ level2' = level2
               /\ Len(level2_buf') = Len(level2_buf) + 1]_vars

\* C20 witness: an apply emptied a filled buffer and purged rows.
C20_Witness ==
    /\ l2_last = "apply"
    /\ level2_buf = <<>>
    /\ l2_before # <<>>
    /\ Len(level2) < Len(l2_before)
    /\ level2_history_period > 0

\* C21 (L2Spec): an apply that follows an apply with no append in between
\* leaves level2 as the first apply left it -- same rows, same order --
\* whatever the retention and the buffer were.
C21_ApplyIdempotent ==
    (l2_last = "apply" /\ l2_applies = 2) => level2 = l2_before

\* C21 witness: a second apply in a row over rows the first one kept.
C21_Witness ==
    /\ l2_last = "apply"
    /\ l2_applies = 2
    /\ level2 # <<>>
    /\ level2_buf = <<>>
    /\ level2_history_period > 0

\* C22 (UcSpec): of two rows appended with the same index exactly one is
\* held afterwards, the second one, and after any sequence of calls the
\* indices held are unique and in non-decreasing order.
C22_DedupKeepsLast ==
    /\ \A j, k \in DOMAIN x_unchecked :
          j < k => x_unchecked[j].index < x_unchecked[k].index
    /\ \A j, k \in DOMAIN y_unchecked :
          j < k => y_unchecked[j].index < y_unchecked[k].index
    /\ uc_new # NoRow =>
          LET xs == x_unchecked \o x_checked
              ys == y_unchecked \o y_checked
          IN /\ \E k \in DOMAIN xs : xs[k].index = uc_new.index
             /\ \E k \in DOMAIN ys : ys[k].index = uc_new.index
             /\ \A k \in DOMAIN xs :
                    xs[k].index = uc_new.index => xs[k].value = uc_new.x
             /\ \A k \in DOMAIN ys :
                    ys[k].index = uc_new.index => ys[k].value = uc_new.y
             /\ \A j, k \in DOMAIN xs :
                    xs[j].index = xs[k].index => j = k

\* C23 (UcSpec): with the rows coming one at a time in increasing order of
\* their index, a pair is returned as checked only when the candles allow
\* its target; the unchecked buffers hold exactly the pairs added with an
\* index above the largest checked one, x_unchecked and y_unchecked carry
\* the same indices, and a checked pair is not held again.
C23_UncheckedProgression ==
    /\ \A i \in uc_checked : i + TargetHorizon <= uc_candles
    /\ Indices(x_unchecked) = Indices(y_unchecked)
    /\ Indices(x_checked) = Indices(y_checked)
    /\ uc_in_order =>
          /\ Indices(x_unchecked) =
                {i \in uc_added : \A c \in uc_checked : i > c}
          /\ Indices(x_unchecked) \cap uc_checked = {}
          /\ ~uc_new.raised

\* C23 witness: test_update_unchecked after the third call -- candle 1 came
\* back checked, candles 2 and 3 wait.
C23_Witness ==
    /\ uc_in_order
    /\ uc_candles = 3
    /\ Indices(x_checked) = {1}
    /\ Indices(y_checked) = {1}
    /\ Indices(x_unchecked) = {2, 3}
    /\ Indices(y_unchecked) = {2, 3}

\* C24 (GateSpec): with a loss recorded at time T and the cooldown
\* WaitAfterLoss, can_trade() answers false to a query before
\* T + WaitAfterLoss and true from then on; with no loss on record it
\* answers true; the query changes neither the loss record nor the clock.
C24_RiskCooldown ==
    /\ [](cycle.at # -1 =>
            (cycle.can_trade <=>
                \/ cycle.loss_at = -1
                \/ cycle.at >= cycle.loss_at + WaitAfterLoss))
    /\ [][(cycle' # cycle \/ gate_call' # gate_call)
            => (last_loss' = last_loss /\ now' = now)]_vars

\* C24 witness: process_prediction asked exactly when the cooldown of a
\* recorded loss ended, and was allowed to trade.
C24_Witness ==
    /\ strategy = "LgbLowHighRegressionStrategy"
    /\ cycle.loss_at # -1
    /\ cycle.at = cycle.loss_at + WaitAfterLoss
    /\ cycle.can_trade

\* C30 (GateSpec): after a requested trade creation the signal carries
\* 'order_created' and the trade's open price iff broker.cur_trade exists,
\* otherwise 'order_not_created' and no open price; every call of
\* process_prediction persists signal_ext exactly once. (As stated: a call
\* that raises between lines 116 and 133 persists nothing.)
C30_OutcomeRecorded ==
    strategy = "LgbLowHighRegressionStrategy" =>
        /\ cycle.requested =>
             /\ cycle.trade_after <=> cycle.status = "order_created"
             /\ ~cycle.trade_after <=> cycle.status = "order_not_created"
             /\ cycle.open_price = cycle.trade_open_price
             /\ cycle.trade_after <=> cycle.open_price # NoPrice
        /\ ~cycle.requested =>
             /\ cycle.open_price = NoPrice
             /\ cycle.status \notin {"order_created", "order_not_created"}
        /\ cycle.at # -1 => cycle.saved = 1

\* C25 (ChkSpec): with no model loaded a cycle applies the buffers, builds
\* no features, predicts nothing, and still refreshes the status of the
\* current trade when the check interval has elapsed.
C25_TradeCheckedWithoutModel ==
    (chk_cycle.ran /\ ~chk_cycle.model /\ chk_cycle.trade_before
       /\ chk_cycle.due /\ chk_cycle.raised = "none")
    => /\ chk_cycle.applied
       /\ chk_cycle.features = "none"
       /\ ~chk_cycle.predicted
       /\ chk_cycle.refreshed

\* C26 (ChkSpec): when prepare_last_x returns an empty row the cycle
\* predicts nothing, creates no trade, and still refreshes the status of the
\* current trade when the check interval has elapsed.
C26_TradeCheckedOnEmptyFeatures ==
    (chk_cycle.features = "empty" /\ chk_cycle.trade_before
       /\ chk_cycle.due)
    => /\ ~chk_cycle.predicted
       /\ ~chk_cycle.processed
       /\ chk_cycle.refreshed

\* C27 (ChkSpec): check_cur_trade calls update_cur_trade_status only when
\* a trade exists and trade_check_interval has passed since the last check;
\* two calls of it are never less than trade_check_interval apart; the
\* first check after start-up is due at once; with no trade neither the
\* broker nor last_trade_check_time is touched.
C27_CheckThrottle ==
    /\ Len(chk_refreshes) = 2 =>
          chk_refreshes[2] - chk_refreshes[1] >= TradeCheckInterval
    /\ chk_cycle.refreshed =>
          /\ chk_cycle.trade_before
          /\ chk_cycle.checked_at - chk_cycle.last_before
                >= TradeCheckInterval
          /\ chk_refreshes # <<>>
    /\ (chk_cycle.check_called /\ chk_cycle.trade_before
          /\ chk_cycle.last_before = 0 - TradeCheckInterval)
       => chk_cycle.refreshed
    /\ (chk_cycle.check_called /\ chk_cycle.trade_before)
       => (chk_cycle.refreshed <=> chk_cycle.due)
    /\ ~chk_cycle.trade_before =>
          /\ ~chk_cycle.refreshed
          /\ chk_cycle.last_after = chk_cycle.last_before

\* C28 (Spec): when can_learn() is false the learn run ends right after
\* apply_buffers -- no prepare_xy, no pipeline, no model created, fitted or
\* saved, the model as it was -- and, with a learn interval set, the timer
\* for the next attempt is started.
C28_CannotLearnAborts ==
    /\ [](learn_result = "cannot_learn" =>
            /\ learnpc \in {"finally", "idle"}
            /\ (learnpc = "idle" /\ Truthy(learn_interval)) => timers > 0)
    /\ [][learn_result' = "cannot_learn" =>
            (model' = model /\ model_fitted' = model_fitted)]_vars

\* C28 witness: a learn run without enough history has ended, no model
\* exists and the next timer is pending.
C28_Witness ==
    /\ learn_result = "cannot_learn"
    /\ learnpc = "idle"
    /\ ~model
    /\ timers > 0

\* C29 (AlSpec): is_alive() is the conjunction of feed.is_alive(
\* history_min_window + 60s) over the configured feeds only: false iff a
\* configured feed is not alive, true with no feed configured.
C29_AliveIsConjunction ==
    al_result # "none" =>
        /\ al_result = "alive" <=>
              \A f \in al_feeds :
                  al_seen[f] < HistoryMinWindow + AliveGrace
        /\ al_result = "dead" <=>
              \E f \in al_feeds :
                  ~(al_seen[f] < HistoryMinWindow + AliveGrace)
        /\ al_feeds = {} => al_result = "alive"

\* C29 witness: two configured feeds are alive, the third feed is stale but
\* not configured, and is_alive() is true.
C29_Witness ==
    /\ al_result = "alive"
    /\ Cardinality(al_feeds) = 2
    /\ \E f \in FeedNames \ al_feeds :
          al_seen[f] >= HistoryMinWindow + AliveGrace

\* C31 (Spec): is_processing is true exactly while a predict/gate cycle of
\* process_new_data executes (from the guard to the finally clause) and is
\* false after every cycle, whether it completed, returned on empty features
\* or raised; a call of process_new_data that finds the flag set starts no
\* cycle and goes straight to the sleep at the end of the iteration.
C31_ProcessingFlagBracketsCycle ==
    /\ [](is_processing <=> mainpc \in (CycleSteps \cup {"finally"}))
    /\ [][(mainpc = "process" /\ is_processing /\ mainpc' # mainpc)
             => (mainpc' = "sleep" /\ is_processing')]_vars

\* C31 witness: a cycle whose predict raised has ended and the flag is clear
\* again while the loop sleeps.
C31_Witness ==
    /\ mainpc = "sleep"
    /\ last_exc = "predict"
    /\ model
    /\ ~is_processing

\* C33 (SlSpec): levels of a trade request -- a buy (signal 1) is requested
\* with stop loss at the low and take profit at the high of the last candle
\* of the target period, a sell (signal -1) with stop loss at the high and
\* take profit at the low, both with trailing delta high - low; a zero
\* signal requests no trade.
C33_SlTpFromLastCandle ==
    /\ (sl_call.outcome # "none" /\ sl_call.signal = 0)
          => sl_call.outcome = "returned"
    /\ (sl_call.outcome # "none" /\ sl_call.signal = 1)
          => /\ sl_call.outcome = "create_cur_trade"
             /\ sl_call.direction = 1
             /\ sl_call.stop_loss_price = sl_call.low
             /\ sl_call.take_profit_price = sl_call.high
             /\ sl_call.trailing_delta = sl_call.high - sl_call.low
    /\ (sl_call.outcome # "none" /\ sl_call.signal = -1)
          => /\ sl_call.outcome = "create_cur_trade"
             /\ sl_call.direction = -1
             /\ sl_call.stop_loss_price = sl_call.high
             /\ sl_call.take_profit_price = sl_call.low
             /\ sl_call.trailing_delta = sl_call.high - sl_call.low

\* C33 witness: the sell of the repository's test -- candle low 1, high 3
\* gives stop loss 3, take profit 1 and trailing delta 2.
C33_Witness ==
    /\ sl_call.outcome = "create_cur_trade"
    /\ sl_call.signal = -1
    /\ sl_call.low = 1
    /\ sl_call.high = 3
    /\ sl_call.stop_loss_price = 3
    /\ sl_call.take_profit_price = 1
    /\ sl_call.trailing_delta = 2

\* The thread that holds the lock thread t is waiting for ("none" when t is
\* not waiting or the lock is free).
LkWaitsFor(t) ==
    IF t \notin LkThreads
       THEN "none"
       ELSE IF lkpc[t] = "wait_data"
               THEN (IF t = "feed" /\ ~FeedsShareDataLock
                        THEN lk_feed ELSE lk_data)
               ELSE IF lkpc[t] = "wait_trade" THEN lk_trade ELSE "none"

\* C34 (LkSpec): the two locks are independent -- a thread that is kept
\* waiting for one lock is never waiting for a holder that is itself kept
\* waiting for the other lock: buffer application and feed ingestion are
\* never held up by on_price_changed holding trade_lock, nor the reverse
\* (and there is no deadlock).
C34_LocksIndependent ==
    \A t \in LkThreads :
        LkWaitsFor(t) # "none" => LkWaitsFor(LkWaitsFor(t)) = "none"

\* C35 (StSpec): when a configured feed has received no data at the
\* evaluation of is_alive() before the loop, the processing loop is entered
\* all the same: it does not end before its first iteration.
C35_LoopEntersBeforeData ==
    (st_first.no_data # {}) => ~(st_pc = "ended" /\ st_cycles = 0)

\* C36 (Spec): predict is invoked only on a model that has completed a
\* fit -- whenever the cycle of process_new_data is at its predict step,
\* a model.fit has finished.
C36_PredictOnlyAfterFit ==
    mainpc = "predict" => model_fitted

\* C37 (TssSpec): across tick batches at most one closing order is
\* submitted for an open trade -- once a call has submitted the closing
\* order, no later on_price_changed call that comes before the broker's
\* order update gets to cancel_order or create_closing_order again.
C37_OneClosingOrderPerTrade ==
    tss_initiated => tsspc \notin {"cancel", "close"}

TssErrors == {"attribute_error", "update_error", "cancel_error",
              "close_error"}

\* C38 (TssSpec): an exception raised while a tick batch is evaluated
\* (by update_cur_trade_status, cancel_order, create_closing_order, or by a
\* tick compared when cur_trade has become None) is caught and logged: it
\* does not leave on_price_changed, the call is over, the trade lock is
\* free and the next call can be made.
C38_ErrorCaughtLockReleased ==
    /\ []((tss_last = "raised") =>
            /\ ~tss_escaped
            /\ tsspc = "idle"
            /\ trade_lock = "none"
            /\ tss_log # <<>>
            /\ tss_log[Len(tss_log)] \in TssErrors
            /\ ENABLED TssCall)
    /\ [][(/\ Len(tss_log') = Len(tss_log) + 1
           /\ tss_log'[Len(tss_log')] \in TssErrors)
            => /\ tss_last' = "raised"
               /\ trade_lock' = "none"
               /\ ~tss_escaped']_vars

\* C38 witness: create_closing_order raised after a successful cancel; the
\* call has ended in its except clause and the trade lock is free.
C38_Witness ==
    /\ tss_last = "raised"
    /\ tss_log = <<"update", "cancel", "close_error">>
    /\ trade_lock = "none"
    /\ tsspc = "idle"

\* C39 (PlhSpec): the flags of PredictLowHighStrategy are set only while a
\* run executes -- is_processing only while some callback is in
\* predict_low_high, is_learning only while some callback is inside learn();
\* after a call that raised they are clear again.
C39_FlagsOnlyWhileRunning ==
    /\ plh_processing => \E t \in Callbacks : plhpc[t] = "predict"
    /\ is_learning => \E t \in Callbacks : plhpc[t] \in InLearn

\* C40 (GateSpec): status of a signal that requested no trade in
\* LgbLowHighRegressionStrategy.process_prediction -- 'signal_oom' whenever
\* the signal is 0, else 'already_in_market' whenever a trade exists, else
\* 'risk_manager_oom' (can_trade() false); it is never None, and the open
\* price is None.
C40_StatusPrecedence ==
    (/\ strategy = "LgbLowHighRegressionStrategy"
     /\ cycle.at # -1
     /\ ~cycle.requested) =>
        /\ cycle.signal = 0 => cycle.status = "signal_oom"
        /\ (cycle.signal # 0 /\ cycle.had_trade)
              => cycle.status = "already_in_market"
        /\ (cycle.signal # 0 /\ ~cycle.had_trade)
              => (~cycle.can_trade /\ cycle.status = "risk_manager_oom")
        /\ cycle.status # "None"
        /\ cycle.open_price = NoPrice

\* C40 witness: a zero signal while a trade is in the market and the risk
\* manager refuses -- all three tests fail and the status is that of the
\* signal.
C40_Witness ==
    /\ strategy = "LgbLowHighRegressionStrategy"
    /\ cycle.at # -1
    /\ cycle.signal = 0
    /\ cycle.had_trade
    /\ ~cycle.can_trade
    /\ ~cycle.requested
    /\ cycle.status = "signal_oom"
    /\ cycle.open_price = NoPrice

=============================================================================
